---- MODULE Spec2Model ----
(***************************************************************************)
(* page-zen: the content extraction and cleaning pipeline of               *)
(* internal/utils (ArticleCleaner).  Go strings are TLA+ strings; a Go     *)
(* index i (0-based) is position i+1 here, and -1 stays "not found".       *)
(***************************************************************************)
EXTENDS Integers, Sequences, FiniteSets, TLC

VARIABLES
    rpc, rawURL, baseURL, resolved,          \* URL Resolver
    epc, content, maxLength, excerpt,        \* Excerpt Generator
    mpc, doc, pageURL, og,                   \* Metadata Extractor
    pruns, pdom, plive, premoved,            \* Selector-Based Pruner
    spc, candidates, picture, highest,       \* Image Rewriter: source selection
    ipc, idoc,                               \* Image Rewriter: the two passes
    pc, op, reqURL, calls,                   \* Pipeline: the invocation
    fetches, page, debugFile,                \* Pipeline: network and file system
    dom, openGraphData, article,             \* Pipeline: locals of CleanArticle
    cleanedTextContent, converted, markdown, articleExcerpt, cleanedArticle,
    ret, trace,                              \* Pipeline: return value, stages run
    npc, ntext, ncleaned,                    \* Text Normalizer
    hpc, request, response,                  \* HTTP handlers
    goroutines                               \* Concurrent invocations: pc and locals of each

resolveVars == <<rpc, rawURL, resolved>>
excerptVars == <<epc, content, maxLength, excerpt>>
metaVars == <<mpc, doc, pageURL, og>>
pruneVars == <<pruns, pdom, plive, premoved>>
srcsetVars == <<spc, candidates, picture, highest>>
imageVars == <<ipc, idoc>>
invocationVars == <<pc, op, reqURL, calls>>
worldVars == <<fetches, page, debugFile>>
localVars ==
    <<dom, openGraphData, article, cleanedTextContent, converted, markdown, articleExcerpt,
      cleanedArticle>>
pipelineVars == <<invocationVars, worldVars, localVars, ret, trace>>
normalizeVars == <<npc, ntext, ncleaned>>
handlerVars == <<hpc, request, response>>
otherVars == <<normalizeVars, handlerVars, goroutines>>
vars ==
    <<resolveVars, baseURL, excerptVars, metaVars, pruneVars, srcsetVars, imageVars,
      pipelineVars, otherVars>>

\* What an operation of one component leaves alone in the others.
exceptResolve ==
    <<excerptVars, metaVars, pruneVars, srcsetVars, imageVars, pipelineVars, otherVars>>
exceptExcerpt ==
    <<resolveVars, baseURL, metaVars, pruneVars, srcsetVars, imageVars, pipelineVars,
      otherVars>>
exceptMeta ==
    <<resolveVars, excerptVars, pruneVars, srcsetVars, imageVars, pipelineVars, otherVars>>
exceptPrune ==
    <<resolveVars, baseURL, excerptVars, metaVars, srcsetVars, imageVars, pipelineVars,
      otherVars>>
exceptSrcset ==
    <<resolveVars, baseURL, excerptVars, metaVars, pruneVars, imageVars, pipelineVars,
      otherVars>>
exceptImages ==
    <<resolveVars, excerptVars, metaVars, pruneVars, srcsetVars, pipelineVars, otherVars>>
exceptPipeline ==
    <<resolveVars, excerptVars, metaVars, pruneVars, srcsetVars, imageVars, otherVars>>
exceptNormalize ==
    <<resolveVars, baseURL, excerptVars, metaVars, pruneVars, srcsetVars, imageVars,
      pipelineVars, handlerVars, goroutines>>
exceptHandlers ==
    <<resolveVars, excerptVars, metaVars, pruneVars, srcsetVars, imageVars, normalizeVars,
      goroutines>>
exceptConcurrent ==
    <<resolveVars, baseURL, excerptVars, metaVars, pruneVars, srcsetVars, imageVars,
      invocationVars, page, localVars, ret, trace, normalizeVars, handlerVars>>

(***************************************************************************)
(* Bounds of the model.                                                    *)
(***************************************************************************)
MaxRawLen == 3
MaxContentLen == 4
MaxElems == 3
MaxNodes == 3
MaxPrunes == 2
MaxCandidates == 3
MaxImageNodes == 2
MaxCalls == 2
MaxTextLen == 3
MaxGoroutines == 2

(***************************************************************************)
(* The Go standard library functions the cleaner calls (package strings).  *)
(***************************************************************************)
Char(s, i) == SubSeq(s, i, i)

HasPrefix(s, p) == Len(s) >= Len(p) /\ SubSeq(s, 1, Len(p)) = p

HasSuffix(s, p) == Len(s) >= Len(p) /\ SubSeq(s, Len(s) - Len(p) + 1, Len(s)) = p

TrimSuffix(s, p) == IF HasSuffix(s, p) THEN SubSeq(s, 1, Len(s) - Len(p)) ELSE s

\* The 0-based positions at which sub occurs in s.
Occurrences(s, sub) ==
    {i \in 0..(Len(s) - Len(sub)) : SubSeq(s, i + 1, i + Len(sub)) = sub}

Index(s, sub) ==
    LET occ == Occurrences(s, sub)
    IN  IF occ = {} THEN -1 ELSE CHOOSE i \in occ : \A j \in occ : i <= j

LastIndex(s, sub) ==
    LET occ == Occurrences(s, sub)
    IN  IF occ = {} THEN -1 ELSE CHOOSE i \in occ : \A j \in occ : i >= j

Contains(s, sub) == Occurrences(s, sub) # {}

\* strings.Replace(s, old, new, 1): the first occurrence only.
ReplaceFirst(s, old, new) ==
    LET i == Index(s, old)
    IN  IF i < 0 THEN s
        ELSE SubSeq(s, 1, i) \o new \o SubSeq(s, i + Len(old) + 1, Len(s))

\* unicode.IsSpace on the ASCII range.
IsSpace(c) == c \in {" ", "\t", "\n", "\r", "\f"}

RECURSIVE TrimLeft(_)
TrimLeft(s) ==
    IF Len(s) > 0 /\ IsSpace(Char(s, 1)) THEN TrimLeft(SubSeq(s, 2, Len(s))) ELSE s

RECURSIVE TrimRight(_)
TrimRight(s) ==
    IF Len(s) > 0 /\ IsSpace(Char(s, Len(s))) THEN TrimRight(SubSeq(s, 1, Len(s) - 1)) ELSE s

TrimSpace(s) == TrimRight(TrimLeft(s))

\* strings.Fields: the maximal runs of non-space bytes, in order.
RECURSIVE FieldsFrom(_, _, _)
FieldsFrom(s, i, cur) ==
    IF i > Len(s) THEN (IF cur = "" THEN <<>> ELSE <<cur>>)
    ELSE IF IsSpace(Char(s, i))
         THEN (IF cur = "" THEN <<>> ELSE <<cur>>) \o FieldsFrom(s, i + 1, "")
         ELSE FieldsFrom(s, i + 1, cur \o Char(s, i))

Fields(s) == FieldsFrom(s, 1, "")

\* strings.Split(s, sep), sep not empty.
RECURSIVE Split(_, _)
Split(s, sep) ==
    IF Index(s, sep) < 0 THEN <<s>>
    ELSE <<SubSeq(s, 1, Index(s, sep))>>
             \o Split(SubSeq(s, Index(s, sep) + Len(sep) + 1, Len(s)), sep)

Digits == <<"0", "1", "2", "3", "4", "5", "6", "7", "8", "9">>

DigitValue(c) == (CHOOSE i \in DOMAIN Digits : Digits[i] = c) - 1

RECURSIVE DigitsValue(_)
DigitsValue(s) ==
    IF s = "" THEN 0
    ELSE 10 * DigitsValue(SubSeq(s, 1, Len(s) - 1)) + DigitValue(Char(s, Len(s)))

\* strconv.Atoi: an optional sign and decimal digits (values that fit an int).
Atoi(s) ==
    LET signed == Len(s) > 0 /\ Char(s, 1) \in {"+", "-"}
        digits == IF signed THEN SubSeq(s, 2, Len(s)) ELSE s
        isNumber == digits # ""
                        /\ \A i \in 1..Len(digits) :
                               \E d \in DOMAIN Digits : Digits[d] = Char(digits, i)
    IN  IF ~isNumber THEN [err |-> TRUE, value |-> 0]
        ELSE [err |-> FALSE,
              value |-> IF signed /\ Char(s, 1) = "-"
                        THEN 0 - DigitsValue(digits) ELSE DigitsValue(digits)]

\* All strings over alphabet abc of length at most n.
RECURSIVE StringsUpTo(_, _)
StringsUpTo(abc, n) ==
    IF n = 0 THEN {""}
    ELSE LET shorter == StringsUpTo(abc, n - 1)
         IN  shorter \cup {s \o c : s \in shorter, c \in abc}

RECURSIVE Repeat(_, _)
Repeat(s, n) ==
    IF n = 0 THEN ""
    ELSE IF n = 1 THEN s
    ELSE Repeat(s, n \div 2) \o Repeat(s, n - (n \div 2))

(***************************************************************************)
(* URL Resolver.  A base URL is Go's url.URL: the resolver reads Scheme and *)
(* Host only.                                                              *)
(***************************************************************************)
Bases ==
    [Scheme : {"http", "https"}, Host : {"site.com"}, Path : {"", "/blog/post"},
     RawQuery : {"", "q=1"}]

NoBase == [Scheme |-> "", Host |-> "", Path |-> "", RawQuery |-> ""]

RawURLs ==
    StringsUpTo({"/", "a", ":"}, MaxRawLen)
        \cup {"http://", "https://", "http://a.io/x", "https://a.io/x?y", "http:/a",
              "//cdn.example.com/x.png", "/img/a.png", "img/a.png", "../a.png",
              "httpx://a", "ftp://a.io/f"}

\* A resolver that tests the absolute-path prefix before the protocol-relative one.
resolveURL_pathFirst(raw, base) ==
    IF raw = "" THEN ""
    ELSE IF HasPrefix(raw, "http://") \/ HasPrefix(raw, "https://") THEN raw
    ELSE IF HasPrefix(raw, "/") THEN base.Scheme \o "://" \o base.Host \o raw
    ELSE IF HasPrefix(raw, "//") THEN "https:" \o raw
    ELSE base.Scheme \o "://" \o base.Host \o "/" \o raw

resolveURL(raw, base) ==
    IF raw = "" THEN ""
    ELSE IF HasPrefix(raw, "http://") \/ HasPrefix(raw, "https://") THEN raw
    ELSE IF HasPrefix(raw, "//") THEN "https:" \o raw
    ELSE IF HasPrefix(raw, "/") THEN base.Scheme \o "://" \o base.Host \o raw
    ELSE base.Scheme \o "://" \o base.Host \o "/" \o raw

ResolveOff == rpc = "off" /\ rawURL = "" /\ resolved = ""

InitResolve ==
    /\ rpc = "call"
    /\ rawURL \in RawURLs
    /\ baseURL \in Bases
    /\ resolved = ""

Resolve ==
    /\ rpc = "call"
    /\ resolved' = resolveURL(rawURL, baseURL)
    /\ rpc' = "returned"
    /\ UNCHANGED <<rawURL, baseURL, exceptResolve>>

(***************************************************************************)
(* Excerpt Generator.                                                      *)
(***************************************************************************)
ExcerptSlack == 50
ArticleExcerptLimit == 200

Ellipsis == "..."

\* Scenario D of the specification.
WordContent == Repeat("word ", 60)

Contents ==
    StringsUpTo({"a", " ", "."}, MaxContentLen)
        \cup {WordContent,
              Repeat("a", 70),
              "ab cd" \o Repeat("e", 70),
              Repeat("a", 10) \o " " \o Repeat("b", 70),
              Repeat("a", 11) \o " " \o Repeat("b", 70),
              Repeat("a", 9) \o " " \o Repeat("b", 70),
              " " \o Repeat("b", 70)}

MaxLengths == 0..MaxContentLen \cup {60, ArticleExcerptLimit}

\* An excerpt whose prefix is one byte too long.
generateExcerpt_offByOne(c, n) ==
    IF Len(c) <= n THEN c
    ELSE LET cut == SubSeq(c, 1, n + 1)
             lastSpace == LastIndex(cut, " ")
         IN  (IF lastSpace > 0 /\ lastSpace > n - ExcerptSlack
              THEN SubSeq(cut, 1, lastSpace) ELSE cut) \o Ellipsis

\* An excerpt generator that appends no ellipsis.
generateExcerpt_noEllipsis(c, n) ==
    IF Len(c) <= n THEN c
    ELSE LET cut == SubSeq(c, 1, n)
             lastSpace == LastIndex(cut, " ")
         IN  IF lastSpace > 0 /\ lastSpace > n - ExcerptSlack
             THEN SubSeq(cut, 1, lastSpace) ELSE cut

\* An excerpt generator whose slack test admits the space at index n - 50.
generateExcerpt_inclusive(c, n) ==
    IF Len(c) <= n THEN c
    ELSE LET cut == SubSeq(c, 1, n)
             lastSpace == LastIndex(cut, " ")
         IN  (IF lastSpace > 0 /\ lastSpace >= n - ExcerptSlack
              THEN SubSeq(cut, 1, lastSpace) ELSE cut) \o Ellipsis

generateExcerpt(c, n) ==
    IF Len(c) <= n THEN c
    ELSE LET cut == SubSeq(c, 1, n)
             lastSpace == LastIndex(cut, " ")
         IN  (IF lastSpace > 0 /\ lastSpace > n - ExcerptSlack
              THEN SubSeq(cut, 1, lastSpace) ELSE cut) \o Ellipsis

ExcerptOff == epc = "off" /\ content = "" /\ maxLength = 0 /\ excerpt = ""

InitExcerpt ==
    /\ epc = "call"
    /\ content \in Contents
    /\ maxLength \in MaxLengths
    /\ excerpt = ""

GenerateExcerpt ==
    /\ epc = "call"
    /\ excerpt' = generateExcerpt(content, maxLength)
    /\ epc' = "returned"
    /\ UNCHANGED <<content, maxLength, exceptExcerpt>>

(***************************************************************************)
(* Documents.  An element carries its tag, its attributes (name, value     *)
(* pairs) and its text; a document is read in document order.  goquery's   *)
(* Attr, SetAttr and RemoveAttr act on the attribute pairs.                *)
(***************************************************************************)
HasAttr(e, a) == \E p \in e.attrs : p[1] = a

Attr(e, a) == IF HasAttr(e, a) THEN (CHOOSE p \in e.attrs : p[1] = a)[2] ELSE ""

SetAttr(e, a, v) == [e EXCEPT !.attrs = {p \in @ : p[1] # a} \cup {<<a, v>>}]

RemoveAttr(e, a) == [e EXCEPT !.attrs = {p \in @ : p[1] # a}]

Elem(tag, attrs, text) == [tag |-> tag, attrs |-> attrs, text |-> text]

MetaProperty(key, c) == Elem("meta", {<<"property", key>>, <<"content", c>>}, "")
MetaName(key, c) == Elem("meta", {<<"name", key>>, <<"content", c>>}, "")
TitleElem(text) == Elem("title", {}, text)

(***************************************************************************)
(* Metadata Extractor.                                                     *)
(***************************************************************************)
OpenGraphData ==
    [Title |-> "", Description |-> "", Image |-> "", URL |-> "", Type |-> "",
     SiteName |-> "", Locale |-> "", TwitterCard |-> "", TwitterSite |-> "",
     TwitterCreator |-> "", TwitterTitle |-> "", TwitterDescription |-> "",
     TwitterImage |-> "", Author |-> "", PublishedAt |-> "", ModifiedAt |-> "",
     Section |-> "", Tags |-> <<>>]

\* og := &OpenGraphData{URL: pageURL}
\* The record started from the post-redirect base URL instead of the request URL.
newOpenGraphData_fromBase(url, base) ==
    [OpenGraphData EXCEPT !.URL = base.Scheme \o "://" \o base.Host \o base.Path]

newOpenGraphData(url, base) == [OpenGraphData EXCEPT !.URL = url]

\* doc.Find("meta[property^='og:']")
ogSelector(e) ==
    e.tag = "meta" /\ HasAttr(e, "property") /\ HasPrefix(Attr(e, "property"), "og:")

\* doc.Find("meta[name^='twitter:']")
twitterSelector(e) ==
    e.tag = "meta" /\ HasAttr(e, "name") /\ HasPrefix(Attr(e, "name"), "twitter:")

\* The switch of extractOGMetaTags on one selected element.
ogCase(o, property, c) ==
    CASE property = "og:title" -> [o EXCEPT !.Title = c]
      [] property = "og:description" -> [o EXCEPT !.Description = c]
      [] property = "og:image" -> [o EXCEPT !.Image = c]
      [] property = "og:url" -> [o EXCEPT !.URL = c]
      [] property = "og:type" -> [o EXCEPT !.Type = c]
      [] property = "og:site_name" -> [o EXCEPT !.SiteName = c]
      [] property = "og:locale" -> [o EXCEPT !.Locale = c]
      [] property = "article:author" -> [o EXCEPT !.Author = c]
      [] property = "article:published_time" -> [o EXCEPT !.PublishedAt = c]
      [] property = "article:modified_time" -> [o EXCEPT !.ModifiedAt = c]
      [] property = "article:section" -> [o EXCEPT !.Section = c]
      [] property = "article:tag" -> [o EXCEPT !.Tags = Append(@, c)]
      [] OTHER -> o

\* A switch whose title, description and image arms write the main fields.
twitterCase_intoMain(o, name, c) ==
    CASE name = "twitter:card" -> [o EXCEPT !.TwitterCard = c]
      [] name = "twitter:site" -> [o EXCEPT !.TwitterSite = c]
      [] name = "twitter:creator" -> [o EXCEPT !.TwitterCreator = c]
      [] name = "twitter:title" -> [o EXCEPT !.Title = c]
      [] name = "twitter:description" -> [o EXCEPT !.Description = c]
      [] name = "twitter:image" -> [o EXCEPT !.Image = c]
      [] OTHER -> o

\* The switch of extractTwitterMetaTags on one selected element.
twitterCase(o, name, c) ==
    CASE name = "twitter:card" -> [o EXCEPT !.TwitterCard = c]
      [] name = "twitter:site" -> [o EXCEPT !.TwitterSite = c]
      [] name = "twitter:creator" -> [o EXCEPT !.TwitterCreator = c]
      [] name = "twitter:title" -> [o EXCEPT !.TwitterTitle = c]
      [] name = "twitter:description" -> [o EXCEPT !.TwitterDescription = c]
      [] name = "twitter:image" -> [o EXCEPT !.TwitterImage = c]
      [] OTHER -> o

\* An Each callback that skips an absent content only: an empty one is assigned.
RECURSIVE eachOG_emptyAssigned(_, _)
eachOG_emptyAssigned(sel, o) ==
    IF sel = <<>> THEN o
    ELSE LET e == Head(sel)
             next == IF ~HasAttr(e, "property") THEN o
                     ELSE IF ~HasAttr(e, "content") THEN o
                     ELSE ogCase(o, Attr(e, "property"), Attr(e, "content"))
         IN  eachOG_emptyAssigned(Tail(sel), next)

\* The Each callback of extractOGMetaTags: an absent or empty content is skipped.
RECURSIVE eachOG(_, _)
eachOG(sel, o) ==
    IF sel = <<>> THEN o
    ELSE LET e == Head(sel)
             next == IF ~HasAttr(e, "property") THEN o
                     ELSE IF ~HasAttr(e, "content") \/ Attr(e, "content") = "" THEN o
                     ELSE ogCase(o, Attr(e, "property"), Attr(e, "content"))
         IN  eachOG(Tail(sel), next)

\* The Each callback of extractTwitterMetaTags.
RECURSIVE eachTwitter(_, _)
eachTwitter(sel, o) ==
    IF sel = <<>> THEN o
    ELSE LET e == Head(sel)
             next == IF ~HasAttr(e, "name") THEN o
                     ELSE IF ~HasAttr(e, "content") \/ Attr(e, "content") = "" THEN o
                     ELSE twitterCase(o, Attr(e, "name"), Attr(e, "content"))
         IN  eachTwitter(Tail(sel), next)

extractOGMetaTags(d, o) == eachOG(SelectSeq(d, ogSelector), o)

extractTwitterMetaTags(d, o) == eachTwitter(SelectSeq(d, twitterSelector), o)

\* doc.Find("title").First().Text()
firstTitleText(d) ==
    LET IsTitle(e) == e.tag = "title"
        sel == SelectSeq(d, IsTitle)
    IN  IF sel = <<>> THEN "" ELSE Head(sel).text

\* doc.Find("meta[name='<n>']").Attr("content"): the first selected element's.
nameContent(d, n) ==
    LET IsNamed(e) == e.tag = "meta" /\ HasAttr(e, "name") /\ Attr(e, "name") = n
        sel == SelectSeq(d, IsNamed)
    IN  IF sel = <<>> THEN [exists |-> FALSE, value |-> ""]
        ELSE [exists |-> HasAttr(Head(sel), "content"), value |-> Attr(Head(sel), "content")]

\* Fallbacks that are applied whether or not the field is already set.
extractFallbackMetaTags_overwrite(d, o) ==
    LET title == firstTitleText(d)
        desc == nameContent(d, "description")
        author == nameContent(d, "author")
        o1 == IF title # "" THEN [o EXCEPT !.Title = TrimSpace(title)] ELSE o
        o2 == IF desc.exists /\ desc.value # ""
              THEN [o1 EXCEPT !.Description = TrimSpace(desc.value)] ELSE o1
    IN  IF author.exists /\ author.value # ""
        THEN [o2 EXCEPT !.Author = TrimSpace(author.value)] ELSE o2

extractFallbackMetaTags(d, o) ==
    LET title == firstTitleText(d)
        desc == nameContent(d, "description")
        author == nameContent(d, "author")
        o1 == IF o.Title = "" /\ title # "" THEN [o EXCEPT !.Title = TrimSpace(title)] ELSE o
        o2 == IF o1.Description = "" /\ desc.exists /\ desc.value # ""
              THEN [o1 EXCEPT !.Description = TrimSpace(desc.value)] ELSE o1
    IN  IF o2.Author = "" /\ author.exists /\ author.value # ""
        THEN [o2 EXCEPT !.Author = TrimSpace(author.value)] ELSE o2

\* The tail of extractOpenGraphData: og.Image and og.TwitterImage are resolved.
resolveImageFields(o, base) ==
    [o EXCEPT !.Image = resolveURL(@, base), !.TwitterImage = resolveURL(@, base)]

MetaElements ==
    {MetaProperty("og:title", "OG"), MetaProperty("og:title", ""),
     Elem("meta", {<<"property", "og:title">>}, ""),
     MetaProperty("og:description", "OGD"),
     MetaProperty("og:image", "/img/a.png"),
     MetaProperty("og:url", "/page"), MetaProperty("og:url", "https://site.com/canon"),
     MetaName("twitter:title", "TW"), MetaName("twitter:description", "TWD"),
     MetaName("twitter:image", "//cdn.example.com/t.png"),
     MetaProperty("article:tag", "go"), MetaProperty("article:tag", "web"),
     MetaProperty("article:author", "Ann"),
     MetaProperty("article:published_time", "2024-01-02T03:04:05Z"),
     TitleElem(" Hello "), TitleElem("Second"),
     MetaName("description", " Desc "), MetaName("author", "Bob")}

RECURSIVE SeqsUpTo(_, _)
SeqsUpTo(S, n) ==
    IF n = 0 THEN {<<>>}
    ELSE LET shorter == SeqsUpTo(S, n - 1)
         IN  shorter \cup {Append(q, x) : q \in shorter, x \in S}

MetaDocs == SeqsUpTo(MetaElements, MaxElems)

PageURLs == {"http://short.ly/x", "https://site.com/blog/post"}

MetaBases == {b \in Bases : b.Scheme = "https" /\ b.Path = "/blog/post" /\ b.RawQuery = ""}

MetaOff == mpc = "off" /\ doc = <<>> /\ pageURL = "" /\ og = OpenGraphData

InitMeta ==
    /\ mpc = "call"
    /\ doc \in MetaDocs
    /\ pageURL \in PageURLs
    /\ baseURL \in MetaBases
    /\ og = OpenGraphData

\* Documents that repeat a key: several og:title, og:description and
\* twitter:image elements, with a content, with an empty one, without one.
RepeatedElements ==
    {MetaProperty("og:title", "OG"), MetaProperty("og:title", "OG2"),
     MetaProperty("og:title", ""), Elem("meta", {<<"property", "og:title">>}, ""),
     MetaProperty("og:description", "OGD"), MetaProperty("og:description", ""),
     MetaName("twitter:image", "/t1.png"), MetaName("twitter:image", "t2.png"),
     MetaName("twitter:image", ""),
     TitleElem(" Hello "), MetaName("description", " Desc ")}

InitMetaRepeated ==
    /\ mpc = "call"
    /\ doc \in SeqsUpTo(RepeatedElements, MaxElems)
    /\ pageURL \in PageURLs
    /\ baseURL \in MetaBases
    /\ og = OpenGraphData

\* extractOpenGraphData, statement by statement.
BeginExtract ==
    /\ mpc = "call"
    /\ og' = newOpenGraphData(pageURL, baseURL)
    /\ mpc' = "og"
    /\ UNCHANGED <<doc, pageURL, baseURL, exceptMeta>>

ExtractOG ==
    /\ mpc = "og"
    /\ og' = extractOGMetaTags(doc, og)
    /\ mpc' = "twitter"
    /\ UNCHANGED <<doc, pageURL, baseURL, exceptMeta>>

ExtractTwitter ==
    /\ mpc = "twitter"
    /\ og' = extractTwitterMetaTags(doc, og)
    /\ mpc' = "fallback"
    /\ UNCHANGED <<doc, pageURL, baseURL, exceptMeta>>

ExtractFallback ==
    /\ mpc = "fallback"
    /\ og' = extractFallbackMetaTags(doc, og)
    /\ mpc' = "resolve"
    /\ UNCHANGED <<doc, pageURL, baseURL, exceptMeta>>

ResolveImageFields ==
    /\ mpc = "resolve"
    /\ og' = resolveImageFields(og, baseURL)
    /\ mpc' = "returned"
    /\ UNCHANGED <<doc, pageURL, baseURL, exceptMeta>>

(***************************************************************************)
(* Selector-Based Pruner.  A tree is a sequence of elements, each with the *)
(* index of its parent (0: the document root, parents come first), and the *)
(* set of the elements still attached to the document.                     *)
(***************************************************************************)
TagSel(t) == [kind |-> "tag", tag |-> t, attr |-> "", val |-> ""]
ClassSel(c) == [kind |-> "class", tag |-> "", attr |-> "class", val |-> c]
TagAttrSel(t, a, v) == [kind |-> "tagattr", tag |-> t, attr |-> a, val |-> v]
AttrSel(a, v) == [kind |-> "attr", tag |-> "", attr |-> a, val |-> v]
TagNotClassSel(t, c) == [kind |-> "tagnotclass", tag |-> t, attr |-> "class", val |-> c]

unwantedSelectors ==
    << TagSel("script"), TagSel("style"), TagSel("noscript"),
       TagSel("nav"), TagSel("header"), TagSel("footer"),
       ClassSel("navigation"), ClassSel("nav"), ClassSel("menu"),
       ClassSel("ad"), ClassSel("ads"), ClassSel("advertisement"),
       ClassSel("social"), ClassSel("share"), ClassSel("sharing"),
       ClassSel("social-share"), ClassSel("social-media"), ClassSel("twitter"),
       ClassSel("facebook"), ClassSel("instagram"),
       ClassSel("comments"), ClassSel("comment"), ClassSel("related"),
       ClassSel("recommended"), ClassSel("suggestions"),
       ClassSel("analytics"), ClassSel("tracking"), ClassSel("pixel"),
       ClassSel("cookie"), ClassSel("gdpr"), ClassSel("popup"), ClassSel("modal"),
       ClassSel("overlay"),
       ClassSel("subscribe"), ClassSel("newsletter"), ClassSel("signup"),
       ClassSel("email-signup"),
       ClassSel("breadcrumb"), ClassSel("breadcrumbs"), ClassSel("tags"),
       ClassSel("categories"),
       ClassSel("video-player"), ClassSel("embed"),
       TagAttrSel("iframe", "src", "youtube"), TagAttrSel("iframe", "src", "vimeo"),
       AttrSel("class", "sidebar"), AttrSel("class", "widget"),
       AttrSel("id", "sidebar"), AttrSel("id", "widget"),
       TagNotClassSel("form", "search-form") >>

HasClass(e, c) ==
    LET tokens == Fields(Attr(e, "class")) IN \E i \in DOMAIN tokens : tokens[i] = c

\* Whether element e matches selector sel (cascadia).
Matches(sel, e) ==
    CASE sel.kind = "tag" -> e.tag = sel.tag
      [] sel.kind = "class" -> HasClass(e, sel.val)
      [] sel.kind = "tagattr" ->
            e.tag = sel.tag /\ HasAttr(e, sel.attr) /\ Contains(Attr(e, sel.attr), sel.val)
      [] sel.kind = "attr" -> HasAttr(e, sel.attr) /\ Contains(Attr(e, sel.attr), sel.val)
      [] sel.kind = "tagnotclass" -> e.tag = sel.tag /\ ~HasClass(e, sel.val)

RECURSIVE IsUnder(_, _, _)
IsUnder(nodes, j, i) ==
    /\ nodes[j].parent # 0
    /\ (nodes[j].parent = i \/ IsUnder(nodes, nodes[j].parent, i))

PruneElements ==
    {Elem("div", {<<"class", "admin">>}, ""),
     Elem("script", {}, ""),
     Elem("div", {<<"class", "promo ad">>}, ""),
     Elem("div", {<<"class", "left-sidebar">>}, ""),
     Elem("form", {<<"class", "big search-form">>}, ""),
     Elem("form", {<<"class", "signup-form">>}, ""),
     Elem("iframe", {<<"src", "https://youtube.com/embed/1">>}, "")}

\* The documents the pipeline fetches: elements in document order, each under
\* the root (0) or an earlier element.
PageNode(e, parent) == [elem |-> e, parent |-> parent]

Pages ==
    {<<>>,
     <<PageNode(TitleElem(" Page title "), 0),
       PageNode(MetaProperty("og:title", "OG"), 0),
       PageNode(MetaProperty("og:image", "/img/og.png"), 0),
       PageNode(Elem("img", {<<"src", "/img/a.png">>, <<"loading", "lazy">>}, ""), 0),
       PageNode(Elem("script", {}, ""), 0)>>,
     <<PageNode(Elem("header", {}, ""), 0),
       PageNode(MetaName("description", " Desc "), 1),
       PageNode(MetaName("twitter:image", "tw.png"), 1),
       PageNode(Elem("img", {<<"src", "pic.webp">>}, ""), 0)>>,
     <<PageNode(Elem("div", {<<"class", "left-sidebar">>}, ""), 0),
       PageNode(Elem("img", {<<"src", "//cdn.example.com/x.png">>}, ""), 1),
       PageNode(Elem("p", {}, "Hello"), 0)>>}

PageElements == UNION {{pg[i].elem : i \in DOMAIN pg} : pg \in Pages}

\* For each rule (by position in unwantedSelectors), the elements it matches.
matchedBy ==
    [k \in DOMAIN unwantedSelectors |->
        {e \in PruneElements \cup PageElements : Matches(unwantedSelectors[k], e)}]

\* doc.Find(unwantedSelectors[k]): the attached elements that match rule k.
Find(nodes, live, k) == {i \in live : nodes[i].elem \in matchedBy[k]}

\* Selection.Remove: the selected elements leave the document with their subtrees.
Remove(nodes, live, found) ==
    {j \in live : j \notin found /\ \A i \in found : ~IsUnder(nodes, j, i)}

\* A loop that removes only the first element each selector finds.
RECURSIVE removeFirstOnlyFrom(_, _, _, _)
removeFirstOnlyFrom(k, nodes, live, removedCount) ==
    IF k > Len(unwantedSelectors) THEN [live |-> live, removedCount |-> removedCount]
    ELSE IF Cardinality(Find(nodes, live, k)) > 0
         THEN LET elements == Find(nodes, live, k)
                  first == CHOOSE i \in elements : \A j \in elements : i <= j
              IN  removeFirstOnlyFrom(k + 1, nodes, Remove(nodes, live, {first}),
                                      removedCount + 1)
         ELSE removeFirstOnlyFrom(k + 1, nodes, live, removedCount)

removeUnwantedElements_firstOnly(nodes, live) == removeFirstOnlyFrom(1, nodes, live, 0)

\* The loop of removeUnwantedElements from selector k on.
RECURSIVE removeFrom(_, _, _, _)
removeFrom(k, nodes, live, removedCount) ==
    IF k > Len(unwantedSelectors) THEN [live |-> live, removedCount |-> removedCount]
    ELSE IF Cardinality(Find(nodes, live, k)) > 0
         THEN LET elements == Find(nodes, live, k)
                  count == Cardinality(elements)
              IN  removeFrom(k + 1, nodes, Remove(nodes, live, elements), removedCount + count)
         ELSE removeFrom(k + 1, nodes, live, removedCount)

removeUnwantedElements(nodes, live) == removeFrom(1, nodes, live, 0)

\* The trees of n elements: element i hangs under the root or an earlier element.
Trees(n) ==
    {t \in [1..n -> [elem : PruneElements, parent : 0..(n - 1)]] :
        \A i \in 1..n : t[i].parent < i}

PruneOff == pruns = 0 /\ pdom = <<>> /\ plive = {} /\ premoved = 0

InitPrune ==
    /\ pruns = 0
    /\ \E n \in 1..MaxNodes : pdom \in Trees(n)
    /\ plive = DOMAIN pdom
    /\ premoved = 0

RemoveUnwantedElements ==
    /\ pdom # <<>>
    /\ pruns < MaxPrunes
    /\ \E r \in {removeUnwantedElements(pdom, plive)} :
          plive' = r.live /\ premoved' = r.removedCount
    /\ pruns' = pruns + 1
    /\ UNCHANGED <<pdom, exceptPrune>>

(***************************************************************************)
(* Image Rewriter: findHighestQualitySource.  A picture is read through    *)
(* its source elements; the srcset texts are written from candidate lists  *)
(* (a URL and a descriptor each), the way a page author writes them.       *)
(***************************************************************************)
\* The decimal text of an integer.
RECURSIVE NatText(_)
NatText(n) == IF n < 10 THEN Digits[n + 1] ELSE NatText(n \div 10) \o Digits[(n % 10) + 1]

IntText(n) == IF n < 0 THEN "-" \o NatText(0 - n) ELSE NatText(n)

\* kind "w": a width descriptor; "n": a bare number; "x": a density; "none": no
\* descriptor; "two": a width and a density.
Candidate(url, kind, n) == [url |-> url, kind |-> kind, n |-> n]

CandidateText(c) ==
    CASE c.kind = "w" -> c.url \o " " \o IntText(c.n) \o "w"
      [] c.kind = "n" -> c.url \o " " \o IntText(c.n)
      [] c.kind = "x" -> c.url \o " " \o IntText(c.n) \o "x"
      [] c.kind = "none" -> c.url
      [] c.kind = "two" -> c.url \o " " \o IntText(c.n) \o "w 2x"

RECURSIVE SrcsetText(_)
SrcsetText(cs) ==
    IF cs = <<>> THEN ""
    ELSE IF Len(cs) = 1 THEN CandidateText(cs[1])
    ELSE CandidateText(cs[1]) \o ", " \o SrcsetText(Tail(cs))

SourceElem(cs) == Elem("source", {<<"srcset", SrcsetText(cs)>>}, "")

Candidates ==
    {Candidate("a.jpg", "w", 400), Candidate("b.jpg", "w", 1200),
     Candidate("c.jpg", "w", 800), Candidate("d.jpg", "w", 1200),
     Candidate("e.jpg", "w", 0), Candidate("f.jpg", "x", 2),
     Candidate("g.jpg", "none", 0), Candidate("h.jpg", "n", 1600)}

\* A scan that takes the last candidate of the largest width (>= for >).
RECURSIVE scanCandidatesLast(_, _)
scanCandidatesLast(srcs, best) ==
    IF srcs = <<>> THEN best
    ELSE LET parts == Fields(TrimSpace(Head(srcs)))
         IN  IF Len(parts) # 2 THEN scanCandidatesLast(Tail(srcs), best)
             ELSE IF Atoi(TrimSuffix(parts[2], "w")).err
                  THEN scanCandidatesLast(Tail(srcs), best)
             ELSE IF Atoi(TrimSuffix(parts[2], "w")).value >= best.maxWidth
                  THEN scanCandidatesLast(Tail(srcs),
                           [maxWidth |-> Atoi(TrimSuffix(parts[2], "w")).value,
                            highestQualitySource |-> parts[1]])
             ELSE scanCandidatesLast(Tail(srcs), best)

\* The loop over strings.Split(srcset, ",") of one source element.
RECURSIVE scanCandidates(_, _)
scanCandidates(srcs, best) ==
    IF srcs = <<>> THEN best
    ELSE LET parts == Fields(TrimSpace(Head(srcs)))
         IN  IF Len(parts) # 2 THEN scanCandidates(Tail(srcs), best)
             ELSE IF Atoi(TrimSuffix(parts[2], "w")).err
                  THEN scanCandidates(Tail(srcs), best)
             ELSE IF Atoi(TrimSuffix(parts[2], "w")).value > best.maxWidth
                  THEN scanCandidates(Tail(srcs),
                           [maxWidth |-> Atoi(TrimSuffix(parts[2], "w")).value,
                            highestQualitySource |-> parts[1]])
             ELSE scanCandidates(Tail(srcs), best)

\* The Each callback over picture.Find("source").
RECURSIVE eachSource(_, _)
eachSource(sources, best) ==
    IF sources = <<>> THEN best
    ELSE IF ~HasAttr(Head(sources), "srcset") THEN eachSource(Tail(sources), best)
    ELSE eachSource(Tail(sources),
                    scanCandidates(Split(Attr(Head(sources), "srcset"), ","), best))

findHighestQualitySource(sources) ==
    eachSource(sources, [maxWidth |-> 0, highestQualitySource |-> ""]).highestQualitySource

\* The candidate lists of at most n candidates, cut into at most two source elements.
CandidateLists == SeqsUpTo(Candidates, MaxCandidates)

SrcsetOff == spc = "off" /\ candidates = <<>> /\ picture = <<>> /\ highest = ""

InitSrcset ==
    /\ spc = "call"
    /\ \E cs \in CandidateLists : \E cut \in 0..Len(cs) :
          candidates = IF cut = 0 THEN <<cs>>
                       ELSE <<SubSeq(cs, 1, cut), SubSeq(cs, cut + 1, Len(cs))>>
    /\ picture = [i \in DOMAIN candidates |->
                    IF candidates[i] = <<>> THEN Elem("source", {<<"media", "print">>}, "")
                    ELSE SourceElem(candidates[i])]
    /\ highest = ""

FindHighestQualitySource ==
    /\ spc = "call"
    /\ highest' = findHighestQualitySource(picture)
    /\ spc' = "returned"
    /\ UNCHANGED <<candidates, picture, exceptSrcset>>

(***************************************************************************)
(* Image Rewriter: processImages.  A node of the document is an img        *)
(* element, or a picture with its source elements and its img elements     *)
(* (picture.Find("source"), picture.Find("img")), in document order.       *)
(***************************************************************************)
Node(e, sources, imgs) == [elem |-> e, sources |-> sources, imgs |-> imgs]

ImgNode(attrs) == Node(Elem("img", attrs, ""), <<>>, <<>>)

PictureNode(sources, imgs) == Node(Elem("picture", {}, ""), sources, imgs)

\* img.RemoveAttr("loading"); img.RemoveAttr("decoding")
cleanPictureImg(e) == RemoveAttr(RemoveAttr(e, "loading"), "decoding")

\* A picture pass that sets src even when no candidate was selected.
processPicture_alwaysSet(n, base) ==
    IF n.imgs = <<>> THEN <<n>>
    ELSE LET source == findHighestQualitySource(n.sources)
             resolvedURL == resolveURL(ReplaceFirst(source, "webp", "png"), base)
         IN  [i \in DOMAIN n.imgs |->
                 Node(cleanPictureImg(SetAttr(n.imgs[i], "src", resolvedURL)), <<>>, <<>>)]

\* The Each callback of processPictureElements: what takes the picture's place.
processPicture(n, base) ==
    IF n.imgs = <<>> THEN <<n>>
    ELSE LET source == findHighestQualitySource(n.sources)
             resolvedURL == resolveURL(ReplaceFirst(source, "webp", "png"), base)
         IN  [i \in DOMAIN n.imgs |->
                 Node(cleanPictureImg(
                          IF source # "" THEN SetAttr(n.imgs[i], "src", resolvedURL)
                          ELSE n.imgs[i]),
                      <<>>, <<>>)]

RECURSIVE processPictureElements(_, _)
processPictureElements(d, base) ==
    IF d = <<>> THEN <<>>
    ELSE (IF Head(d).elem.tag = "picture" THEN processPicture(Head(d), base) ELSE <<Head(d)>>)
             \o processPictureElements(Tail(d), base)

\* An img pass that substitutes png for webp as the picture pass does.
processImg_substitute(e, base) ==
    LET cleaned == RemoveAttr(RemoveAttr(RemoveAttr(e, "loading"), "decoding"), "srcset")
        src == ReplaceFirst(Attr(cleaned, "src"), "webp", "png")
    IN  IF HasAttr(cleaned, "src") /\ resolveURL(src, base) # Attr(cleaned, "src")
        THEN SetAttr(cleaned, "src", resolveURL(src, base))
        ELSE cleaned

\* The Each callback of processImgElements.
processImg(e, base) ==
    LET cleaned == RemoveAttr(RemoveAttr(RemoveAttr(e, "loading"), "decoding"), "srcset")
    IN  IF HasAttr(cleaned, "src") /\ resolveURL(Attr(cleaned, "src"), base) # Attr(cleaned, "src")
        THEN SetAttr(cleaned, "src", resolveURL(Attr(cleaned, "src"), base))
        ELSE cleaned

\* doc.Find("img").Each: every img of the document, inside a picture or not.
processImgElements(d, base) ==
    [i \in DOMAIN d |->
        IF d[i].elem.tag = "img" THEN Node(processImg(d[i].elem, base), <<>>, <<>>)
        ELSE [d[i] EXCEPT !.imgs = [j \in DOMAIN @ |-> processImg(@[j], base)]]]

ImgAttrs ==
    {{},
     {<<"src", "">>},
     {<<"src", "/img/a.png">>, <<"loading", "lazy">>, <<"decoding", "async">>,
      <<"srcset", "/img/a2.png 2x">>},
     {<<"src", "pic.webp">>, <<"loading", "lazy">>},
     {<<"src", "//">>},
     {<<"src", "https://cdn.example.com/x.webp">>, <<"alt", "x">>}}

PictureSources ==
    {<<>>,
     <<SourceElem(<<Candidate("a.jpg", "w", 400), Candidate("/b.webp.webp", "w", 1200),
                    Candidate("c.jpg", "w", 800)>>)>>,
     <<SourceElem(<<Candidate("f.jpg", "x", 2), Candidate("g.jpg", "none", 0)>>)>>,
     <<Elem("source", {<<"media", "print">>}, ""),
       SourceElem(<<Candidate("//cdn.example.com/big.jpg", "w", 1600)>>)>>}

PictureImgs ==
    {<<>>,
     <<Elem("img", {<<"src", "small.webp">>, <<"loading", "lazy">>, <<"decoding", "async">>}, "")>>,
     <<Elem("img", {<<"src", "https://cdn.example.com/x.webp">>}, "")>>}

ImageNodes ==
    {ImgNode(a) : a \in ImgAttrs}
        \cup {PictureNode(ss, is) : ss \in PictureSources, is \in PictureImgs}

ImageDocs == SeqsUpTo(ImageNodes, MaxImageNodes)

\* The last base has a host that holds "webp".
ImageBases ==
    {b \in Bases : b.Path = "/blog/post" /\ b.RawQuery = ""}
        \cup {[Scheme |-> "https", Host |-> "img.webp.io", Path |-> "/blog/post",
               RawQuery |-> ""]}

ImagesOff == ipc = "off" /\ idoc = <<>>

InitImages ==
    /\ ipc = "call"
    /\ idoc \in ImageDocs
    /\ baseURL \in ImageBases

\* processImages, statement by statement.
ProcessPictureElements ==
    /\ ipc = "call"
    /\ idoc' = processPictureElements(idoc, baseURL)
    /\ ipc' = "images"
    /\ UNCHANGED <<baseURL, exceptImages>>

ProcessImgElements ==
    /\ ipc = "images"
    /\ idoc' = processImgElements(idoc, baseURL)
    /\ ipc' = "returned"
    /\ UNCHANGED <<baseURL, exceptImages>>

(***************************************************************************)
(* Text Normalizer: cleanTextContent.  Each regular expression of the      *)
(* function is given by what regexp.ReplaceAllString does with it: the     *)
(* matches are taken leftmost first, without overlap, each at its greedy   *)
(* length.                                                                 *)
(***************************************************************************)
\* \s of Go's regexp: [\t\n\f\r ].
IsRegexpSpace(c) == c \in {"\t", "\n", "\f", "\r", " "}

UpperLetters == "ABCDEFGHIJKLMNOPQRSTUVWXYZ"
LowerLetters == "abcdefghijklmnopqrstuvwxyz"

\* Case folding of (?i) for the letters of the patterns.
ToLower(c) ==
    IF \E k \in 1..26 : Char(UpperLetters, k) = c
    THEN Char(LowerLetters, CHOOSE k \in 1..26 : Char(UpperLetters, k) = c)
    ELSE c

\* The position after the run of \s that begins at i (i itself when there is none).
RECURSIVE SpaceRunEnd(_, _)
SpaceRunEnd(s, i) ==
    IF i <= Len(s) /\ IsRegexpSpace(Char(s, i)) THEN SpaceRunEnd(s, i + 1) ELSE i

\* The first of the positions, or 0 when there is none.
First(positions) ==
    IF positions = {} THEN 0 ELSE CHOOSE j \in positions : \A k \in positions : j <= k

\* The newlines of the run of \s that begins at i.
RunNewlines(s, i) == {j \in i..(SpaceRunEnd(s, i) - 1) : Char(s, j) = "\n"}

\* re.ReplaceAllString(content, "\n\n") for `\n\s*\n\s*\n+`: a match begins at a
\* newline and runs to the last newline of the \s run that follows, which must
\* hold three newlines at least; the scan goes on after the match.
RECURSIVE collapseNewlines(_, _)
collapseNewlines(s, i) ==
    LET Begins(j) == Char(s, j) = "\n" /\ Cardinality(RunNewlines(s, j)) >= 3
        start == First({j \in i..Len(s) : Begins(j)})
        last == CHOOSE j \in RunNewlines(s, start) : \A k \in RunNewlines(s, start) : k <= j
    IN  IF start = 0 THEN SubSeq(s, i, Len(s))
        ELSE SubSeq(s, i, start - 1) \o "\n\n" \o collapseNewlines(s, last + 1)

\* The concatenation of the pieces lo..hi.
RECURSIVE Join(_, _, _)
Join(pieces, lo, hi) ==
    IF lo > hi THEN ""
    ELSE IF lo = hi THEN pieces[lo]
    ELSE Join(pieces, lo, (lo + hi) \div 2) \o Join(pieces, ((lo + hi) \div 2) + 1, hi)

\* re.ReplaceAllString(content, " ") for `[ \t]+`: every maximal run of spaces
\* and tabs becomes one space.
collapseBlanks(s) ==
    LET IsBlank(j) == Char(s, j) \in {" ", "\t"}
        pieces == [j \in 1..Len(s) |->
                     IF ~IsBlank(j) THEN Char(s, j)
                     ELSE IF j > 1 /\ IsBlank(j - 1) THEN "" ELSE " "]
    IN  Join(pieces, 1, Len(s))

\* A pattern `(?i)w1\s+w2\s+...wn` with an optional last letter (`articles?`).
Pattern(words, optional) == [words |-> words, optional |-> optional]

unwantedTextPatterns ==
    <<Pattern(<<"subscribe", "to", "our", "newsletter">>, ""),
      Pattern(<<"follow", "us", "on">>, ""),
      Pattern(<<"share", "this", "article">>, ""),
      Pattern(<<"related", "article">>, "s"),
      Pattern(<<"you", "might", "also", "like">>, ""),
      Pattern(<<"recommended", "for", "you">>, ""),
      Pattern(<<"advertisement">>, ""),
      Pattern(<<"sponsored", "content">>, "")>>

\* The word w, in any case, stands at position i of s.
WordAt(s, i, w) ==
    /\ i + Len(w) - 1 <= Len(s)
    /\ \A k \in 1..Len(w) : ToLower(Char(s, i + k - 1)) = Char(w, k)

\* The position after the match of the words from the k-th on that begins at i, or
\* 0 when there is no match there.
RECURSIVE MatchWords(_, _, _, _)
MatchWords(s, i, words, k) ==
    IF ~WordAt(s, i, words[k]) THEN 0
    ELSE LET after == i + Len(words[k])
         IN  IF k = Len(words) THEN after
             ELSE IF SpaceRunEnd(s, after) = after THEN 0
             ELSE MatchWords(s, SpaceRunEnd(s, after), words, k + 1)

MatchEnd(s, i, pattern) ==
    LET after == MatchWords(s, i, pattern.words, 1)
    IN  IF after = 0 THEN 0
        ELSE IF pattern.optional # "" /\ WordAt(s, after, pattern.optional)
        THEN after + Len(pattern.optional)
        ELSE after

\* re.ReplaceAllString(content, "") for one pattern: the leftmost match goes, and
\* the scan goes on after it.
RECURSIVE removePattern(_, _, _)
removePattern(s, i, pattern) ==
    LET Begins(j) == MatchEnd(s, j, pattern) > 0
        start == First({j \in i..Len(s) : Begins(j)})
    IN  IF start = 0 THEN SubSeq(s, i, Len(s))
        ELSE SubSeq(s, i, start - 1) \o removePattern(s, MatchEnd(s, start, pattern), pattern)

\* for _, pattern := range unwantedTextPatterns
RECURSIVE removePatterns(_, _)
removePatterns(s, patterns) ==
    IF patterns = <<>> THEN s
    ELSE removePatterns(removePattern(s, 1, Head(patterns)), Tail(patterns))

cleanTextContent(c) ==
    TrimSpace(removePatterns(collapseBlanks(collapseNewlines(c, 1)), unwantedTextPatterns))

\* The texts the normalizer is given: the short texts of blanks, newlines and a
\* letter, and texts with boilerplate phrases.
Texts ==
    StringsUpTo({" ", "\n", "a"}, MaxTextLen)
        \cup {"  Hello   world \n\n\n\n Advertisement \n",
              "a\n \n\t\nb",
              "a \t b\t",
              "Follow us  on Twitter",
              "Subscribe to our\nnewsletter today",
              "Related Articles",
              "related article",
              "Sponsored content: you might also like",
              "x advertisement y",
              "a\n\nadvertisement\n\nb",
              "advertisement  a",
              "follow us advertisement on",
              "adveradvertisementtisement",
              "related articleshare this article",
              "recommended for you might also like"}

NormalizeOff == npc = "off" /\ ntext = "" /\ ncleaned = ""

InitNormalize ==
    /\ npc = "call"
    /\ ntext \in Texts
    /\ ncleaned = ""

CleanTextContent ==
    /\ npc = "call"
    /\ ncleaned' = cleanTextContent(ntext)
    /\ npc' = "returned"
    /\ UNCHANGED <<ntext, exceptNormalize>>

(***************************************************************************)
(* Pipeline: CleanArticle and ExtractOpenGraphData, statement by           *)
(* statement.  The HTTP client, the HTML parser, the readability library,  *)
(* the Markdown converter and the file system are the environment: each    *)
(* call to them takes one of the outcomes its Go signature allows.         *)
(***************************************************************************)
CleanedArticle ==
    [Title |-> "", Content |-> "", Markdown |-> "", URL |-> "", Author |-> "",
     Excerpt |-> "", Length |-> 0, PublishedAt |-> "", OpenGraph |-> <<>>]

\* A nil pointer; a pointer to v.
Nil == <<>>
Ref(v) == <<v>>

\* The statements of CleanArticle and of ExtractOpenGraphData that the model
\* steps through, in program order.
CleanArticleOrder_debugEarly ==
    <<"fetch", "parse", "metadata", "prune", "images", "debug", "readability", "normalize",
      "markdown", "excerpt", "assemble", "return">>

CleanArticleOrder_markdownFirst ==
    <<"fetch", "parse", "metadata", "prune", "images", "readability", "markdown",
      "normalize", "excerpt", "assemble", "debug", "return">>

CleanArticleOrder_pruneFirst ==
    <<"fetch", "parse", "prune", "metadata", "images", "readability", "normalize",
      "markdown", "excerpt", "assemble", "debug", "return">>

CleanArticleOrder ==
    <<"fetch", "parse", "metadata", "prune", "images", "readability", "normalize",
      "markdown", "excerpt", "assemble", "debug", "return">>

ExtractOpenGraphDataOrder == <<"fetch", "parse", "metadata", "return">>

OrderOf(o) == IF o = "CleanArticle" THEN CleanArticleOrder ELSE ExtractOpenGraphDataOrder

\* Where control goes after a statement that did not return.
StageAfter(o, stage) ==
    LET order == OrderOf(o)
        k == CHOOSE i \in DOMAIN order : order[i] = stage
    IN  IF k = Len(order) THEN "returned" ELSE order[k + 1]

\* if err != nil { return ..., err }: tried again instead.
afterError_retry(stage) == IF stage = "fetch" THEN "fetch" ELSE "returned"

\* if err != nil { return ..., err }
afterError(stage) == "returned"

\* A failed call that hands back the metadata it had extracted.
ZeroValue_withMetadata(o) ==
    IF o = "CleanArticle" THEN [CleanedArticle EXCEPT !.OpenGraph = openGraphData]
    ELSE Ref(OpenGraphData)

\* The value a failed call returns: CleanedArticle{} or &OpenGraphData{}.
ZeroValue(o) == IF o = "CleanArticle" THEN CleanedArticle ELSE Ref(OpenGraphData)

Return(value, err) == [value |-> value, err |-> err]

NoReturn == Return(<<>>, "none")

ResponseURLs == MetaBases

\* http.Get fails at once on a URL without the scheme http or https.
Fetchable(u) == HasPrefix(u, "http://") \/ HasPrefix(u, "https://")

\* readability.Article, the fields CleanArticle reads.  "^~" stands for the two
\* bytes of one character outside ASCII (0xC3 0xA9).
Article(title, byline, html, text, published) ==
    [Title |-> title, Byline |-> byline, Content |-> html, TextContent |-> text,
     PublishedTime |-> published]

Time(y, mo, d, h, mi, sec) ==
    [Year |-> y, Month |-> mo, Day |-> d, Hour |-> h, Minute |-> mi, Second |-> sec]

Articles ==
    {Article("", "", "", "", Nil),
     Article(" A title ", " Ann ", "<p>Hello <b>world</b></p>",
             "  Hello   world \n\n\n\n Advertisement \n", Ref(Time(2024, 1, 2, 3, 4, 5))),
     Article("Words", "", "<div><p>words</p></div>", WordContent, Nil),
     Article("", "", "<p>Text only</p>", "Text only", Nil),
     Article("Caf^~", "", "<p>caf^~</p>", "caf^~ cr^~me", Nil),
     Article("Long", "", "<p>long</p>", "ab cd" \o Repeat("e", 200), Nil)}

NoArticle == Article("", "", "", "", Nil)

\* Two decimal digits; four.
Pad2(n) == IF n < 10 THEN "0" \o NatText(n) ELSE NatText(n)
Pad4(n) == IF n < 10 THEN "000" \o NatText(n)
           ELSE IF n < 100 THEN "00" \o NatText(n)
           ELSE IF n < 1000 THEN "0" \o NatText(n) ELSE NatText(n)

\* t.Format(time.RFC3339) for a time in UTC.
FormatRFC3339(t) ==
    Pad4(t.Year) \o "-" \o Pad2(t.Month) \o "-" \o Pad2(t.Day) \o "T"
        \o Pad2(t.Hour) \o ":" \o Pad2(t.Minute) \o ":" \o Pad2(t.Second) \o "Z"

\* The elements of the document, in document order.
Elements(d) ==
    LET Live(i) == i \in d.live
        at == SelectSeq([i \in DOMAIN d.nodes |-> i], Live)
    IN  [k \in DOMAIN at |-> d.nodes[at[k]].elem]

extractOpenGraphData(d, url, base) ==
    resolveImageFields(
        extractFallbackMetaTags(Elements(d),
            extractTwitterMetaTags(Elements(d),
                extractOGMetaTags(Elements(d), newOpenGraphData(url, base)))),
        base)

\* processImages on a document without picture elements.
processImages(d, base) ==
    LET nodes == [i \in DOMAIN d.nodes |-> Node(d.nodes[i].elem, <<>>, <<>>)]
        out == processImgElements(processPictureElements(nodes, base), base)
    IN  [d EXCEPT !.nodes = [i \in DOMAIN @ |->
                                IF i \in d.live THEN [@[i] EXCEPT !.elem = out[i].elem]
                                ELSE @[i]]]

\* What converter.ConvertString may answer: (markdown, err).
Markdowns == {"", "Hello **world**"}

Conversions ==
    {[err |-> TRUE, markdown |-> ""]} \cup {[err |-> FALSE, markdown |-> m] : m \in Markdowns}

NoConversion == [err |-> FALSE, markdown |-> ""]

\* convertToMarkdown whose fallback is the empty string.
convertToMarkdown_empty(htmlContent, answer) ==
    IF answer.err THEN "" ELSE answer.markdown

\* convertToMarkdown that keeps the HTML whatever the converter answers.
convertToMarkdown_keepHTML(htmlContent, answer) == htmlContent

\* convertToMarkdown, given what ConvertString answers.
convertToMarkdown(htmlContent, answer) ==
    IF answer.err THEN htmlContent ELSE answer.markdown

\* The composite literal of CleanArticle.
assemble(url, a, text, md, ex, ogData) ==
    [Title |-> TrimSpace(a.Title),
     Content |-> text,
     Markdown |-> md,
     URL |-> url,
     Author |-> TrimSpace(a.Byline),
     Excerpt |-> ex,
     Length |-> Len(text),
     PublishedAt |-> IF a.PublishedTime # Nil THEN FormatRFC3339(a.PublishedTime[1]) ELSE "",
     OpenGraph |-> ogData]

\* doc.Html()
Html(d) == Elements(d)

\* saveDebugHTML: what tmp/article.html holds afterwards.
saveDebugHTML(d, file, outcome) == IF outcome = "written" THEN Ref(Html(d)) ELSE file

\* GetCleanedArticle and GetOpenGraphData: the error is dropped.
GetCleanedArticle(r) == IF r.err # "nil" THEN CleanedArticle ELSE r.value
GetOpenGraphData(r) == IF r.err # "nil" THEN Ref(OpenGraphData) ELSE r.value

NoDocument == [nodes |-> <<>>, live |-> {}]

NoLocals ==
    /\ dom = NoDocument
    /\ openGraphData = Nil
    /\ article = NoArticle
    /\ cleanedTextContent = ""
    /\ converted = NoConversion
    /\ markdown = ""
    /\ articleExcerpt = ""
    /\ cleanedArticle = CleanedArticle

PipelineOff ==
    /\ pc = "off" /\ op = "" /\ reqURL = "" /\ calls = 0
    /\ fetches = 0 /\ page = <<>> /\ debugFile = Nil
    /\ NoLocals
    /\ ret = NoReturn /\ trace = <<>>

InitPipeline ==
    /\ pc = "idle" /\ op = "" /\ reqURL = "" /\ calls = 0
    /\ fetches = 0 /\ page = <<>> /\ debugFile = Nil
    /\ NoLocals
    /\ ret = NoReturn /\ trace = <<>>
    /\ baseURL = NoBase

\* A caller invokes CleanArticle(u) or ExtractOpenGraphData(u).
Call ==
    /\ pc \in {"idle", "returned"}
    /\ calls < MaxCalls
    /\ \E o \in {"CleanArticle", "ExtractOpenGraphData"}, u \in PageURLs :
          op' = o /\ reqURL' = u
    /\ calls' = calls + 1
    /\ pc' = "fetch"
    /\ page' = <<>>
    /\ baseURL' = NoBase
    /\ dom' = NoDocument
    /\ openGraphData' = Nil
    /\ article' = NoArticle
    /\ cleanedTextContent' = ""
    /\ converted' = NoConversion
    /\ markdown' = ""
    /\ articleExcerpt' = ""
    /\ cleanedArticle' = CleanedArticle
    /\ ret' = NoReturn
    /\ trace' = <<>>
    /\ UNCHANGED <<fetches, debugFile, exceptPipeline>>

\* resp, err := http.Get(pageURL)
Fetch ==
    /\ pc = "fetch"
    /\ fetches' = fetches + 1
    /\ trace' = Append(trace, "fetch")
    /\ \/ /\ pc' = afterError("fetch")
          /\ ret' = Return(ZeroValue(op), "fetch")
          /\ UNCHANGED page
       \/ /\ Fetchable(reqURL)
          /\ \E body \in Pages, u \in ResponseURLs : page' = [body |-> body, url |-> u]
          /\ pc' = StageAfter(op, "fetch")
          /\ UNCHANGED ret
    /\ UNCHANGED <<op, reqURL, calls, debugFile, localVars, baseURL, exceptPipeline>>

\* doc, err := goquery.NewDocumentFromReader(resp.Body); return doc, resp.Request.URL, nil
Parse ==
    /\ pc = "parse"
    /\ trace' = Append(trace, "parse")
    /\ \/ /\ pc' = afterError("parse")
          /\ ret' = Return(ZeroValue(op), "parse")
          /\ UNCHANGED <<dom, baseURL>>
       \/ /\ dom' = [nodes |-> page.body, live |-> DOMAIN page.body]
          /\ baseURL' = page.url
          /\ pc' = StageAfter(op, "parse")
          /\ UNCHANGED ret
    /\ UNCHANGED <<op, reqURL, calls, worldVars, openGraphData, article, cleanedTextContent,
                   converted, markdown, articleExcerpt, cleanedArticle, exceptPipeline>>

\* openGraphData := ac.extractOpenGraphData(doc, pageURL, baseURL)
ExtractMetadata ==
    /\ pc = "metadata"
    /\ trace' = Append(trace, "metadata")
    /\ openGraphData' = Ref(extractOpenGraphData(dom, reqURL, baseURL))
    /\ pc' = StageAfter(op, "metadata")
    /\ UNCHANGED <<op, reqURL, calls, worldVars, dom, article, ret, cleanedTextContent, converted,
                   markdown, articleExcerpt, cleanedArticle, baseURL, exceptPipeline>>

\* ac.removeUnwantedElements(doc)
Prune ==
    /\ pc = "prune"
    /\ trace' = Append(trace, "prune")
    /\ dom' = [dom EXCEPT !.live = removeUnwantedElements(dom.nodes, dom.live).live]
    /\ pc' = StageAfter(op, "prune")
    /\ UNCHANGED <<op, reqURL, calls, worldVars, openGraphData, article, cleanedTextContent,
                   converted, markdown, articleExcerpt, cleanedArticle, ret, baseURL, exceptPipeline>>

\* ac.processImages(doc, baseURL)
RewriteImages ==
    /\ pc = "images"
    /\ trace' = Append(trace, "images")
    /\ dom' = processImages(dom, baseURL)
    /\ pc' = StageAfter(op, "images")
    /\ UNCHANGED <<op, reqURL, calls, worldVars, openGraphData, article, cleanedTextContent,
                   converted, markdown, articleExcerpt, cleanedArticle, ret, baseURL, exceptPipeline>>

\* article, err := readability.FromDocument(doc.Get(0), nil)
Readability ==
    /\ pc = "readability"
    /\ trace' = Append(trace, "readability")
    /\ \/ /\ pc' = afterError("readability")
          /\ ret' = Return(ZeroValue(op), "readability")
          /\ UNCHANGED article
       \/ /\ article' \in Articles
          /\ pc' = StageAfter(op, "readability")
          /\ UNCHANGED ret
    /\ UNCHANGED <<op, reqURL, calls, worldVars, dom, openGraphData, cleanedTextContent,
                   converted, markdown, articleExcerpt, cleanedArticle, baseURL, exceptPipeline>>

\* cleanedTextContent := ac.cleanTextContent(article.TextContent)
Normalize ==
    /\ pc = "normalize"
    /\ trace' = Append(trace, "normalize")
    /\ cleanedTextContent' = cleanTextContent(article.TextContent)
    /\ pc' = StageAfter(op, "normalize")
    /\ UNCHANGED <<op, reqURL, calls, worldVars, dom, openGraphData, article, converted,
                   markdown, articleExcerpt, cleanedArticle, ret, baseURL, exceptPipeline>>

\* markdown := ac.convertToMarkdown(article.Content)
RenderMarkdown ==
    /\ pc = "markdown"
    /\ trace' = Append(trace, "markdown")
    /\ converted' \in Conversions
    /\ markdown' = convertToMarkdown(article.Content, converted')
    /\ pc' = StageAfter(op, "markdown")
    /\ UNCHANGED <<op, reqURL, calls, worldVars, dom, openGraphData, article,
                   cleanedTextContent, articleExcerpt, cleanedArticle, ret, baseURL,
                   exceptPipeline>>

\* excerpt := ac.generateExcerpt(cleanedTextContent, 200)
Excerpt ==
    /\ pc = "excerpt"
    /\ trace' = Append(trace, "excerpt")
    /\ articleExcerpt' = generateExcerpt(cleanedTextContent, ArticleExcerptLimit)
    /\ pc' = StageAfter(op, "excerpt")
    /\ UNCHANGED <<op, reqURL, calls, worldVars, dom, openGraphData, article,
                   cleanedTextContent, converted, markdown, cleanedArticle, ret, baseURL,
                   exceptPipeline>>

\* cleanedArticle := CleanedArticle{...}
Assemble ==
    /\ pc = "assemble"
    /\ trace' = Append(trace, "assemble")
    /\ cleanedArticle' = assemble(reqURL, article, cleanedTextContent, markdown,
                                  articleExcerpt, openGraphData)
    /\ pc' = StageAfter(op, "assemble")
    /\ UNCHANGED <<op, reqURL, calls, worldVars, dom, openGraphData, article,
                   cleanedTextContent, converted, markdown, articleExcerpt, ret, baseURL,
                   exceptPipeline>>

\* ac.saveDebugHTML(doc)
SaveDebugHTML ==
    /\ pc = "debug"
    /\ trace' = Append(trace, "debug")
    /\ \E outcome \in {"html error", "write error", "written"} :
          debugFile' = saveDebugHTML(dom, debugFile, outcome)
    /\ pc' = StageAfter(op, "debug")
    /\ UNCHANGED <<op, reqURL, calls, fetches, page, localVars, ret, baseURL, exceptPipeline>>

\* return cleanedArticle, nil; return openGraphData, nil
ReturnResult ==
    /\ pc = "return"
    /\ trace' = Append(trace, "return")
    /\ ret' = Return(IF op = "CleanArticle" THEN cleanedArticle ELSE openGraphData, "nil")
    /\ pc' = StageAfter(op, "return")
    /\ UNCHANGED <<op, reqURL, calls, worldVars, localVars, baseURL, exceptPipeline>>

(***************************************************************************)
(* HTTP handlers (internal/server/handlers.go): ExtractArticleHandler,     *)
(* ExtractArticleSimpleHandler, ExtractOpenGraphHandler and                *)
(* ExtractOpenGraphSimpleHandler.  A request is its route, whether its     *)
(* body parses as JSON (POST), its url and its include_markdown field (the  *)
(* text of the JSON value) or markdown query value, each absent (Nil) or   *)
(* present (Ref).                                                          *)
(***************************************************************************)
StatusOK == 200
StatusBadRequest == 400
StatusInternalServerError == 500

Routes == {"POST /extract", "GET /extract", "POST /opengraph", "GET /opengraph"}

IsPost(route) == route \in {"POST /extract", "POST /opengraph"}

IsExtract(route) == route \in {"POST /extract", "GET /extract"}

RequestURLs == {"", "not a url"} \cup PageURLs

Request(route, json, url, md) == [route |-> route, json |-> json, url |-> url, markdown |-> md]

Requests ==
    {Request(route, TRUE, url, md) :
        route \in {"POST /extract"},
        url \in {Nil} \cup {Ref(u) : u \in RequestURLs},
        md \in {Nil, Ref("false"), Ref("true"), Ref("\"true\"")}}
    \cup {Request(route, FALSE, Nil, Nil) : route \in {"POST /extract", "POST /opengraph"}}
    \cup {Request(route, TRUE, url, md) :
             route \in {"GET /extract"},
             url \in {Nil} \cup {Ref(u) : u \in RequestURLs},
             md \in {Nil, Ref("true"), Ref("TRUE"), Ref("false")}}
    \cup {Request(route, TRUE, url, Nil) :
             route \in {"POST /opengraph", "GET /opengraph"},
             url \in {Nil} \cup {Ref(u) : u \in RequestURLs}}

\* c.Query(key): "" when the key is absent.
Query(field) == IF field = Nil THEN "" ELSE field[1]

\* c.ShouldBindJSON(&req) with binding:"required" on URL; c.Query("url") == "".
\* includeMarkdown is req.IncludeMarkdown, or c.Query("markdown") == "true".
bind(r) ==
    [err |-> IF IsPost(r.route)
             THEN \/ ~r.json
                  \/ Query(r.url) = ""
                  \/ r.markdown # Nil /\ r.markdown[1] \notin {"true", "false"}
             ELSE Query(r.url) = "",
     url |-> Query(r.url),
     includeMarkdown |-> Query(r.markdown) = "true"]

ArticleResponse ==
    [URL |-> "", Title |-> "", Content |-> "", Markdown |-> "", Author |-> "",
     Excerpt |-> "", Length |-> 0, PublishedAt |-> "", OpenGraph |-> Nil,
     Success |-> FALSE, Message |-> ""]

OpenGraphResponse == [URL |-> "", OpenGraph |-> Nil, Success |-> FALSE, Message |-> ""]

\* c.JSON(status, body)
JSON(status, body) == [status |-> status, body |-> body]

\* The response to a request that does not bind.
badRequest(r) ==
    LET message == IF IsPost(r.route) THEN "Invalid request body: error"
                   ELSE "URL parameter is required"
    IN  JSON(StatusBadRequest,
             IF IsExtract(r.route) THEN [ArticleResponse EXCEPT !.Message = message]
             ELSE [OpenGraphResponse EXCEPT !.Message = message])

\* A test that takes an article without title or without content as failed.
extractFailed_either(a) == a.Title = "" \/ a.Content = ""

\* if cleanedArticle.Title == "" && cleanedArticle.Content == ""
extractFailed(a) == a.Title = "" /\ a.Content = ""

\* if openGraphData == nil || openGraphData.Title == ""
openGraphFailed(o) == o = Nil \/ o[1].Title = ""

\* A handler that copies the markdown whatever was asked.
extractResponse_alwaysMarkdown(url, a, includeMarkdown) ==
    IF extractFailed(a)
    THEN JSON(StatusInternalServerError,
              [ArticleResponse EXCEPT !.URL = url,
                                      !.Message = "Failed to extract article content"])
    ELSE JSON(StatusOK,
              [ArticleResponse EXCEPT
                  !.URL = a.URL, !.Title = a.Title, !.Content = a.Content,
                  !.Author = a.Author, !.Excerpt = a.Excerpt, !.Length = a.Length,
                  !.PublishedAt = a.PublishedAt, !.OpenGraph = a.OpenGraph,
                  !.Success = TRUE, !.Markdown = a.Markdown])

\* ExtractArticleHandler and ExtractArticleSimpleHandler after GetCleanedArticle.
extractResponse(url, a, includeMarkdown) ==
    IF extractFailed(a)
    THEN JSON(StatusInternalServerError,
              [ArticleResponse EXCEPT !.URL = url,
                                      !.Message = "Failed to extract article content"])
    ELSE JSON(StatusOK,
              [ArticleResponse EXCEPT
                  !.URL = a.URL, !.Title = a.Title, !.Content = a.Content,
                  !.Author = a.Author, !.Excerpt = a.Excerpt, !.Length = a.Length,
                  !.PublishedAt = a.PublishedAt, !.OpenGraph = a.OpenGraph,
                  !.Success = TRUE,
                  !.Markdown = IF includeMarkdown THEN a.Markdown ELSE ""])

\* ExtractOpenGraphHandler and ExtractOpenGraphSimpleHandler after GetOpenGraphData.
openGraphResponse(url, o) ==
    IF openGraphFailed(o)
    THEN JSON(StatusInternalServerError,
              [OpenGraphResponse EXCEPT !.URL = url,
                                        !.Message = "Failed to extract Open Graph data"])
    ELSE JSON(StatusOK, [OpenGraphResponse EXCEPT !.URL = url, !.OpenGraph = o,
                                                  !.Success = TRUE])

InitHandlers ==
    /\ hpc = "received"
    /\ request \in Requests
    /\ response = <<>>
    /\ InitPipeline

\* The request does not bind: 400, and the handler returns.
Reject ==
    /\ hpc = "received"
    /\ bind(request).err
    /\ response' = badRequest(request)
    /\ hpc' = "responded"
    /\ UNCHANGED <<request, baseURL, pipelineVars, exceptHandlers>>

\* utils.GetCleanedArticle(url) or utils.GetOpenGraphData(url): NewArticleCleaner
\* fails and the zero value comes back, or the method of the cleaner is called.
Invoke ==
    /\ hpc = "received"
    /\ ~bind(request).err
    /\ hpc' = "invoked"
    /\ op' = IF IsExtract(request.route) THEN "CleanArticle" ELSE "ExtractOpenGraphData"
    /\ reqURL' = bind(request).url
    /\ calls' = calls + 1
    /\ \/ pc' = "returned" /\ ret' = Return(ZeroValue(op'), "logger")
       \/ pc' = "fetch" /\ ret' = NoReturn
    /\ UNCHANGED <<request, response, baseURL, worldVars, localVars, trace, exceptHandlers>>

\* The handler answers with what GetCleanedArticle or GetOpenGraphData returned.
Respond ==
    /\ hpc = "invoked"
    /\ pc = "returned"
    /\ response' = IF IsExtract(request.route)
                   THEN extractResponse(bind(request).url, GetCleanedArticle(ret),
                                        bind(request).includeMarkdown)
                   ELSE openGraphResponse(bind(request).url, GetOpenGraphData(ret))
    /\ hpc' = "responded"
    /\ UNCHANGED <<request, baseURL, pipelineVars, exceptHandlers>>

(***************************************************************************)
(* Concurrent invocations.  Every request runs in a goroutine of its own,  *)
(* and GetCleanedArticle and GetOpenGraphData build a new ArticleCleaner   *)
(* per call, so the locals of a call are a record of its goroutine.  The   *)
(* network and tmp/article.html are shared.  os.WriteFile opens the file   *)
(* with O_TRUNC, writes the data at offset 0 and closes it: two system     *)
(* calls, between which the other goroutines run.                          *)
(***************************************************************************)
Goroutines == 1..MaxGoroutines

ConcurrentURLs == {u \in PageURLs : HasPrefix(u, "https://")}

ConcurrentPages == {p \in Pages : Len(p) >= 4}

ConcurrentBases == {b \in ResponseURLs : b.Host = "site.com"}

ConcurrentArticles == {a \in Articles : a.Title \in {" A title ", "Caf^~"}}

ConcurrentConversions == {c \in Conversions : c.markdown = ""}

\* The locals of one call before its first statement.  html is the buffer
\* that saveDebugHTML hands to os.WriteFile; wrote numbers the completed
\* writes of the file in the order they happened (0: none).
Locals(o, u) ==
    [pc |-> "new", op |-> o, reqURL |-> u, page |-> <<>>, baseURL |-> NoBase,
     dom |-> NoDocument, openGraphData |-> Nil, article |-> NoArticle,
     cleanedTextContent |-> "", converted |-> NoConversion, markdown |-> "",
     articleExcerpt |-> "", cleanedArticle |-> CleanedArticle, html |-> <<>>,
     ret |-> NoReturn, wrote |-> 0]

\* What the environment answers to the statement a goroutine is at.
Answer(err, body, a, c) == [err |-> err, page |-> body, article |-> a, conversion |-> c]

Answers(l) ==
    CASE l.pc \in {"new", "parse"} ->
            {Answer(e, <<>>, NoArticle, NoConversion) : e \in BOOLEAN}
      [] l.pc = "fetch" ->
            {Answer(TRUE, <<>>, NoArticle, NoConversion)}
                \cup {Answer(FALSE, [body |-> b, url |-> u], NoArticle, NoConversion) :
                         b \in {p \in ConcurrentPages : Fetchable(l.reqURL)},
                         u \in ConcurrentBases}
      [] l.pc = "readability" ->
            {Answer(TRUE, <<>>, NoArticle, NoConversion)}
                \cup {Answer(FALSE, <<>>, a, NoConversion) : a \in ConcurrentArticles}
      [] l.pc = "markdown" ->
            {Answer(FALSE, <<>>, NoArticle, c) : c \in ConcurrentConversions}
      [] OTHER -> {Answer(FALSE, <<>>, NoArticle, NoConversion)}

\* if err != nil { return CleanedArticle{}, err } and its like.
failed(l, stage) ==
    [l EXCEPT !.pc = afterError(stage), !.ret = Return(ZeroValue(l.op), stage)]

\* One statement of GetCleanedArticle / CleanArticle or of GetOpenGraphData /
\* ExtractOpenGraphData, on the locals of the goroutine that runs it.
statement(l, a) ==
    CASE l.pc = "new" ->
            IF a.err THEN [l EXCEPT !.pc = "returned", !.ret = Return(ZeroValue(l.op), "logger")]
            ELSE [l EXCEPT !.pc = "fetch"]
      [] l.pc = "fetch" ->
            IF a.err THEN failed(l, "fetch")
            ELSE [l EXCEPT !.page = a.page, !.pc = StageAfter(l.op, "fetch")]
      [] l.pc = "parse" ->
            IF a.err THEN failed(l, "parse")
            ELSE [l EXCEPT !.dom = [nodes |-> l.page.body, live |-> DOMAIN l.page.body],
                           !.baseURL = l.page.url,
                           !.pc = StageAfter(l.op, "parse")]
      [] l.pc = "metadata" ->
            [l EXCEPT !.openGraphData = Ref(extractOpenGraphData(l.dom, l.reqURL, l.baseURL)),
                      !.pc = StageAfter(l.op, "metadata")]
      [] l.pc = "prune" ->
            [l EXCEPT !.dom.live = removeUnwantedElements(l.dom.nodes, l.dom.live).live,
                      !.pc = StageAfter(l.op, "prune")]
      [] l.pc = "images" ->
            [l EXCEPT !.dom = processImages(l.dom, l.baseURL),
                      !.pc = StageAfter(l.op, "images")]
      [] l.pc = "readability" ->
            IF a.err THEN failed(l, "readability")
            ELSE [l EXCEPT !.article = a.article, !.pc = StageAfter(l.op, "readability")]
      [] l.pc = "normalize" ->
            [l EXCEPT !.cleanedTextContent = cleanTextContent(l.article.TextContent),
                      !.pc = StageAfter(l.op, "normalize")]
      [] l.pc = "markdown" ->
            [l EXCEPT !.converted = a.conversion,
                      !.markdown = convertToMarkdown(l.article.Content, a.conversion),
                      !.pc = StageAfter(l.op, "markdown")]
      [] l.pc = "excerpt" ->
            [l EXCEPT !.articleExcerpt = generateExcerpt(l.cleanedTextContent,
                                                         ArticleExcerptLimit),
                      !.pc = StageAfter(l.op, "excerpt")]
      [] l.pc = "assemble" ->
            [l EXCEPT !.cleanedArticle = assemble(l.reqURL, l.article, l.cleanedTextContent,
                                                  l.markdown, l.articleExcerpt,
                                                  l.openGraphData),
                      !.pc = StageAfter(l.op, "assemble")]
      [] l.pc = "return" ->
            [l EXCEPT !.ret = Return(IF l.op = "CleanArticle" THEN l.cleanedArticle
                                     ELSE l.openGraphData, "nil"),
                      !.pc = StageAfter(l.op, "return")]

\* os.WriteFile's write(fd, data) at offset 0 of a file that holds old.
writeAt(old, data) == data \o SubSeq(old, Len(data) + 1, Len(old))

\* The number of the latest completed write of the file.
lastWrite(gs) ==
    IF DOMAIN gs = {} THEN 0
    ELSE CHOOSE n \in {gs[g].wrote : g \in DOMAIN gs} : \A g \in DOMAIN gs : gs[g].wrote <= n

InitConcurrent ==
    /\ goroutines \in [Goroutines -> {Locals(o, u) : o \in {"CleanArticle", "ExtractOpenGraphData"},
                                                    u \in ConcurrentURLs}]
    /\ PipelineOff
    /\ baseURL = NoBase

\* A goroutine runs its next statement, one that touches no file.
Statement(g) ==
    /\ goroutines[g].pc \notin {"debug", "open", "write", "returned"}
    /\ \E a \in Answers(goroutines[g]) :
          goroutines' = [goroutines EXCEPT ![g] = statement(@, a)]
    /\ fetches' = IF goroutines[g].pc = "fetch" THEN fetches + 1 ELSE fetches
    /\ UNCHANGED <<debugFile, exceptConcurrent>>

\* saveDebugHTML: html, err := doc.Html(); if err != nil { return }
SerializeHTML(g) ==
    /\ goroutines[g].pc = "debug"
    /\ \/ goroutines' = [goroutines EXCEPT ![g].pc = StageAfter(goroutines[g].op, "debug")]
       \/ goroutines' = [goroutines EXCEPT ![g].html = Html(goroutines[g].dom),
                                           ![g].pc = "open"]
    /\ UNCHANGED <<fetches, debugFile, exceptConcurrent>>

\* os.WriteFile: open("tmp/article.html", O_WRONLY|O_CREATE|O_TRUNC) fails
\* and saveDebugHTML returns, or empties the file.
OpenTruncate(g) ==
    /\ goroutines[g].pc = "open"
    /\ \/ /\ goroutines' = [goroutines EXCEPT ![g].pc = StageAfter(goroutines[g].op, "debug")]
          /\ UNCHANGED debugFile
       \/ /\ goroutines' = [goroutines EXCEPT ![g].pc = "write"]
          /\ debugFile' = Ref(<<>>)
    /\ UNCHANGED <<fetches, exceptConcurrent>>

\* os.WriteFile: write(fd, data) and close(fd).
WriteData(g) ==
    /\ goroutines[g].pc = "write"
    /\ debugFile' = Ref(writeAt(debugFile[1], goroutines[g].html))
    /\ goroutines' = [goroutines EXCEPT ![g].wrote = lastWrite(goroutines) + 1,
                                        ![g].pc = StageAfter(goroutines[g].op, "debug")]
    /\ UNCHANGED <<fetches, exceptConcurrent>>

(***************************************************************************)
(* Specifications, one per component, and their union.                     *)
(***************************************************************************)
HandlersOff == hpc = "off" /\ request = <<>> /\ response = <<>>

ConcurrentOff == goroutines = <<>>

OthersOff == NormalizeOff /\ HandlersOff /\ ConcurrentOff

ComponentsOff ==
    ResolveOff /\ ExcerptOff /\ MetaOff /\ PruneOff /\ SrcsetOff /\ ImagesOff

InitR ==
    InitResolve /\ ExcerptOff /\ MetaOff /\ PruneOff /\ SrcsetOff /\ ImagesOff
        /\ PipelineOff /\ OthersOff
NextR == Resolve
SpecResolve == InitR /\ [][NextR]_vars

InitE ==
    /\ InitExcerpt /\ baseURL = NoBase
    /\ ResolveOff /\ MetaOff /\ PruneOff /\ SrcsetOff /\ ImagesOff /\ PipelineOff /\ OthersOff
NextE == GenerateExcerpt
SpecExcerpt == InitE /\ [][NextE]_vars

InitM ==
    InitMeta /\ ResolveOff /\ ExcerptOff /\ PruneOff /\ SrcsetOff /\ ImagesOff
        /\ PipelineOff /\ OthersOff
NextM == BeginExtract \/ ExtractOG \/ ExtractTwitter \/ ExtractFallback \/ ResolveImageFields
SpecMeta == InitM /\ [][NextM]_vars

InitMR ==
    InitMetaRepeated /\ ResolveOff /\ ExcerptOff /\ PruneOff /\ SrcsetOff /\ ImagesOff
        /\ PipelineOff /\ OthersOff
SpecMetaRepeated == InitMR /\ [][NextM]_vars

InitP ==
    /\ InitPrune /\ baseURL = NoBase
    /\ ResolveOff /\ ExcerptOff /\ MetaOff /\ SrcsetOff /\ ImagesOff /\ PipelineOff /\ OthersOff
NextP == RemoveUnwantedElements
SpecPrune == InitP /\ [][NextP]_vars

InitS ==
    /\ InitSrcset /\ baseURL = NoBase
    /\ ResolveOff /\ ExcerptOff /\ MetaOff /\ PruneOff /\ ImagesOff /\ PipelineOff /\ OthersOff
NextS == FindHighestQualitySource
SpecSrcset == InitS /\ [][NextS]_vars

InitI ==
    InitImages /\ ResolveOff /\ ExcerptOff /\ MetaOff /\ PruneOff /\ SrcsetOff
        /\ PipelineOff /\ OthersOff
NextI == ProcessPictureElements \/ ProcessImgElements
SpecImages == InitI /\ [][NextI]_vars

InitK ==
    /\ InitPipeline
    /\ ResolveOff /\ ExcerptOff /\ MetaOff /\ PruneOff /\ SrcsetOff /\ ImagesOff
    /\ OthersOff
NextK ==
    \/ Call \/ Fetch \/ Parse \/ ExtractMetadata \/ Prune \/ RewriteImages \/ Readability
    \/ Normalize \/ RenderMarkdown \/ Excerpt \/ Assemble \/ SaveDebugHTML \/ ReturnResult
SpecPipeline == InitK /\ [][NextK]_vars

InitH ==
    /\ InitHandlers
    /\ ComponentsOff /\ NormalizeOff /\ ConcurrentOff
NextH ==
    \/ Reject \/ Invoke \/ Respond
    \/ Fetch \/ Parse \/ ExtractMetadata \/ Prune \/ RewriteImages \/ Readability
    \/ Normalize \/ RenderMarkdown \/ Excerpt \/ Assemble \/ SaveDebugHTML \/ ReturnResult
SpecHandlers == InitH /\ [][NextH]_vars

InitN ==
    /\ InitNormalize /\ baseURL = NoBase
    /\ ComponentsOff /\ PipelineOff /\ HandlersOff /\ ConcurrentOff
NextN == CleanTextContent
SpecNormalize == InitN /\ [][NextN]_vars

InitC ==
    /\ InitConcurrent
    /\ ComponentsOff /\ NormalizeOff /\ HandlersOff
NextC ==
    \/ \E g \in Goroutines : Statement(g)
    \/ \E g \in Goroutines : SerializeHTML(g)
    \/ \E g \in Goroutines : OpenTruncate(g)
    \/ \E g \in Goroutines : WriteData(g)
SpecConcurrent == InitC /\ [][NextC]_vars

Init ==
    InitR \/ InitE \/ InitM \/ InitP \/ InitS \/ InitI \/ InitK \/ InitN \/ InitMR \/ InitH
        \/ InitC
Next ==
    NextR \/ NextE \/ NextM \/ NextP \/ NextS \/ NextI \/ NextK \/ NextN \/ NextH \/ NextC
Spec == Init /\ [][Next]_vars

(***************************************************************************)
(* C1: resolveURL returns the first applicable of: "" for an empty raw;    *)
(* raw itself when it begins with http:// or https://; "https:" + raw when *)
(* it begins with "//"; scheme://host + raw when it begins with "/";       *)
(* scheme://host/ + raw otherwise.  Scenarios A and B hold, and the result *)
(* is the same for every path and query of the base.                       *)
(***************************************************************************)
C1_Begins(raw, p) ==
    Len(raw) >= Len(p) /\ \A i \in 1..Len(p) : Char(raw, i) = Char(p, i)

C1_Expected(raw, scheme, host) ==
    CASE raw = "" -> ""
      [] raw # "" /\ (C1_Begins(raw, "http://") \/ C1_Begins(raw, "https://")) -> raw
      [] raw # "" /\ ~C1_Begins(raw, "http://") /\ ~C1_Begins(raw, "https://")
            /\ C1_Begins(raw, "//") -> "https:" \o raw
      [] raw # "" /\ ~C1_Begins(raw, "http://") /\ ~C1_Begins(raw, "https://")
            /\ ~C1_Begins(raw, "//") /\ C1_Begins(raw, "/") ->
            scheme \o "://" \o host \o raw
      [] OTHER -> scheme \o "://" \o host \o "/" \o raw

C1_ResolveContract ==
    rpc = "returned" =>
        /\ resolved = C1_Expected(rawURL, baseURL.Scheme, baseURL.Host)
        /\ (rawURL = "//cdn.example.com/x.png" => resolved = "https://cdn.example.com/x.png")
        /\ (rawURL = "/img/a.png" /\ baseURL.Scheme = "https"
                => resolved = "https://site.com/img/a.png")
        /\ \A b \in Bases :
              (b.Scheme = baseURL.Scheme /\ b.Host = baseURL.Host)
                  => resolveURL(rawURL, b) = resolved

C1_Witness ==
    /\ rpc = "returned"
    /\ rawURL = "//cdn.example.com/x.png"
    /\ baseURL.Path = "/blog/post"
    /\ resolved = "https://cdn.example.com/x.png"

(***************************************************************************)
(* C10: generateExcerpt returns the content itself when it is not longer   *)
(* than maxLength, and otherwise a string of at most maxLength + 3 bytes   *)
(* that ends with "..."; "word " repeated 60 times with limit 200 is cut   *)
(* at the space that is its 200th byte and is at most 204 bytes long.      *)
(***************************************************************************)
C10_ExcerptBound ==
    epc = "returned" =>
        /\ (Len(content) <= maxLength => excerpt = content)
        /\ (Len(content) > maxLength =>
                /\ Len(excerpt) <= maxLength + 3
                /\ Len(excerpt) >= 3
                /\ SubSeq(excerpt, Len(excerpt) - 2, Len(excerpt)) = "...")
        /\ (content = WordContent /\ maxLength = 200 =>
                /\ excerpt = Repeat("word ", 39) \o "word" \o "..."
                /\ Len(excerpt) <= 204)

C10_Witness ==
    /\ epc = "returned"
    /\ content = WordContent
    /\ maxLength = 200
    /\ Len(excerpt) = 202

(***************************************************************************)
(* What a document offers for a key, read off the document itself.         *)
(***************************************************************************)
\* The contents, in document order, of the meta elements whose attribute a is key
\* and whose content is not empty.
ContentsOf(d, a, key) ==
    LET Offers(e) == /\ e.tag = "meta"
                     /\ <<a, key>> \in e.attrs
                     /\ \E p \in e.attrs : p[1] = "content" /\ p[2] # ""
        sel == SelectSeq(d, Offers)
    IN  [i \in 1..Len(sel) |-> (CHOOSE p \in sel[i].attrs : p[1] = "content")[2]]

LastOf(d, a, key) ==
    LET cs == ContentsOf(d, a, key) IN IF cs = <<>> THEN "" ELSE cs[Len(cs)]

\* The trimmed text of the first title element, "" without one.
TitleOf(d) ==
    LET ts == {i \in 1..Len(d) : d[i].tag = "title"}
    IN  IF ts = {} THEN "" ELSE TrimSpace(d[CHOOSE i \in ts : \A j \in ts : i <= j].text)

\* The trimmed content of the first meta[name=n] element, "" without one.
StandardOf(d, n) ==
    LET ms == {i \in 1..Len(d) : d[i].tag = "meta" /\ <<"name", n>> \in d[i].attrs}
        first == d[CHOOSE i \in ms : \A j \in ms : i <= j]
        cs == {p \in first.attrs : p[1] = "content"}
    IN  IF ms = {} \/ cs = {} THEN "" ELSE TrimSpace((CHOOSE p \in cs : TRUE)[2])

Letters ==
    {"a", "b", "c", "d", "e", "f", "g", "h", "i", "j", "k", "l", "m", "n", "o", "p", "q",
     "r", "s", "t", "u", "v", "w", "x", "y", "z"}

\* scheme://host...: a scheme of letters, "://", and a host that is not empty.
IsAbsoluteURL(u) ==
    \E i \in 1..Len(u) :
        /\ \A k \in 1..i : Char(u, k) \in Letters
        /\ Len(u) >= i + 4
        /\ SubSeq(u, i + 1, i + 3) = "://"
        /\ Char(u, i + 4) \notin {"/", "?", "#", ":"}

(***************************************************************************)
(* C2: in the record the Metadata Extractor returns, every URL-valued      *)
(* field (image, Twitter image, canonical URL) that is not empty is an     *)
(* absolute URL, also when the page gives a relative og:image,             *)
(* twitter:image or og:url.                                                *)
(***************************************************************************)
C2_URLFieldsAbsolute ==
    mpc = "returned" =>
        /\ (og.Image # "" => IsAbsoluteURL(og.Image))
        /\ (og.TwitterImage # "" => IsAbsoluteURL(og.TwitterImage))
        /\ (og.URL # "" => IsAbsoluteURL(og.URL))

(***************************************************************************)
(* C5 as claimed: title, description and image each take the Open Graph    *)
(* value, else the Twitter Card value, else the standard tag / title       *)
(* element.                                                                *)
(***************************************************************************)
C5_TwitterFallback ==
    mpc = "returned" =>
        /\ og.Title =
              (IF LastOf(doc, "property", "og:title") # ""
               THEN LastOf(doc, "property", "og:title")
               ELSE IF LastOf(doc, "name", "twitter:title") # ""
               THEN LastOf(doc, "name", "twitter:title")
               ELSE TitleOf(doc))
        /\ og.Description =
              (IF LastOf(doc, "property", "og:description") # ""
               THEN LastOf(doc, "property", "og:description")
               ELSE IF LastOf(doc, "name", "twitter:description") # ""
               THEN LastOf(doc, "name", "twitter:description")
               ELSE StandardOf(doc, "description"))
        /\ (LastOf(doc, "property", "og:image") = ""
                /\ LastOf(doc, "name", "twitter:image") # "" => og.Image # "")

(***************************************************************************)
(* C5 as amended: title and description take the Open Graph value, else    *)
(* the standard tag / title element; image comes from og:image alone.  A   *)
(* Twitter Card value never becomes title, description or image: it is     *)
(* kept in the Twitter title, description and image fields.                *)
(***************************************************************************)
C5_Precedence ==
    mpc = "returned" =>
        /\ og.Title =
              (IF LastOf(doc, "property", "og:title") # ""
               THEN LastOf(doc, "property", "og:title") ELSE TitleOf(doc))
        /\ og.Description =
              (IF LastOf(doc, "property", "og:description") # ""
               THEN LastOf(doc, "property", "og:description")
               ELSE StandardOf(doc, "description"))
        /\ og.Image = resolveURL(LastOf(doc, "property", "og:image"), baseURL)
        /\ og.TwitterTitle = LastOf(doc, "name", "twitter:title")
        /\ og.TwitterDescription = LastOf(doc, "name", "twitter:description")
        /\ og.TwitterImage = resolveURL(LastOf(doc, "name", "twitter:image"), baseURL)

C5_Witness ==
    /\ mpc = "returned"
    /\ LastOf(doc, "property", "og:title") = ""
    /\ LastOf(doc, "name", "twitter:title") = "TW"
    /\ TitleOf(doc) = "Hello"
    /\ og.Title = "Hello"
    /\ og.TwitterTitle = "TW"

(***************************************************************************)
(* C6: property-tagged article:author, article:published_time,             *)
(* article:modified_time, article:section and article:tag elements with a  *)
(* non-empty content fill the author, published-at, modified-at and        *)
(* section fields, and tags is the sequence of the non-empty article:tag   *)
(* contents in document order.                                             *)
(***************************************************************************)
C6_ArticleKeys ==
    mpc = "returned" =>
        /\ og.Tags = ContentsOf(doc, "property", "article:tag")
        /\ (LastOf(doc, "property", "article:author") # "" => og.Author # "")
        /\ (LastOf(doc, "property", "article:published_time") # "" => og.PublishedAt # "")
        /\ (LastOf(doc, "property", "article:modified_time") # "" => og.ModifiedAt # "")
        /\ (LastOf(doc, "property", "article:section") # "" => og.Section # "")

(***************************************************************************)
(* C7: the canonical URL of the returned record is the non-empty og:url    *)
(* content when the document has one and the request URL otherwise (never  *)
(* the post-redirect base URL), so it is never empty for a non-empty       *)
(* request URL.                                                            *)
(***************************************************************************)
C7_CanonicalURL ==
    mpc = "returned" =>
        /\ og.URL =
              (IF LastOf(doc, "property", "og:url") # ""
               THEN LastOf(doc, "property", "og:url") ELSE pageURL)
        /\ (pageURL # "" => og.URL # "")

C7_Witness ==
    /\ mpc = "returned"
    /\ doc = <<>>
    /\ pageURL = "http://short.ly/x"
    /\ baseURL.Host = "site.com"
    /\ og = [OpenGraphData EXCEPT !.URL = "http://short.ly/x"]

(***************************************************************************)
(* C8: the standard-tag step fills title, description and author only when *)
(* they are still empty after the social-tag scans, with the trimmed text  *)
(* of the first title element and the trimmed contents of                  *)
(* meta[name=description] and meta[name=author]; it changes nothing else.  *)
(* Without an og:title, <title>Hello</title> gives title "Hello"; a        *)
(* non-empty og:title is kept whatever the title element holds.            *)
(***************************************************************************)
C8_FallbackStep ==
    mpc = "fallback" /\ mpc' = "resolve" =>
        /\ og'.Title = (IF og.Title # "" THEN og.Title ELSE TitleOf(doc))
        /\ og'.Description =
              (IF og.Description # "" THEN og.Description ELSE StandardOf(doc, "description"))
        /\ og'.Author = (IF og.Author # "" THEN og.Author ELSE StandardOf(doc, "author"))
        /\ og' = [og EXCEPT !.Title = og'.Title, !.Description = og'.Description,
                            !.Author = og'.Author]

C8_Fallbacks ==
    /\ [][C8_FallbackStep]_vars
    /\ [](mpc = "returned" =>
            /\ (ContentsOf(doc, "property", "og:title") = <<>> /\ TitleOf(doc) = "Hello"
                    => og.Title = "Hello")
            /\ (LastOf(doc, "property", "og:title") # ""
                    => og.Title = LastOf(doc, "property", "og:title")))

C8_Witness ==
    /\ mpc = "returned"
    /\ \A i \in 1..Len(doc) : <<"property", "og:title">> \notin doc[i].attrs
    /\ \E i \in 1..Len(doc) : doc[i] = TitleElem(" Hello ")
    /\ og.Title = "Hello"

(***************************************************************************)
(* C4: pruning is idempotent.  After one run of the pruner no attached     *)
(* element matches any rule; every later run removes zero elements and     *)
(* leaves the tree as the first run left it.                               *)
(***************************************************************************)
C4_SecondRun ==
    pruns >= 1 /\ pruns' = pruns + 1 =>
        /\ premoved' = 0
        /\ plive' = plive
        /\ pdom' = pdom

C4_PruneIdempotent ==
    /\ [][C4_SecondRun]_vars
    /\ [](pruns >= 1 =>
            \A i \in plive : \A k \in DOMAIN unwantedSelectors :
                pdom[i].elem \notin matchedBy[k])

C4_Witness ==
    /\ pruns = 2
    /\ premoved = 0
    /\ plive # {}
    /\ plive # DOMAIN pdom

(***************************************************************************)
(* C3: after the picture pass and the img pass have run on a document      *)
(* with a base of scheme and host, every img whose src is not empty has    *)
(* an absolute src (scheme, "://", host), whether it stood alone or came   *)
(* out of a picture, with or without a selected srcset candidate.          *)
(***************************************************************************)
C3_ImgSrcAbsolute ==
    ipc = "returned" =>
        \A i \in DOMAIN idoc :
            (idoc[i].elem.tag = "img" /\ Attr(idoc[i].elem, "src") # "")
                => IsAbsoluteURL(Attr(idoc[i].elem, "src"))

\* The candidates of the picture in document order, and those the scan can
\* read as a URL and an integer width.
FlatCandidates ==
    IF Len(candidates) = 2 THEN candidates[1] \o candidates[2] ELSE candidates[1]

ParsedWidths(cs) == {i \in DOMAIN cs : cs[i].kind \in {"w", "n"}}

(***************************************************************************)
(* C9 as claimed: the selected source is the URL of a candidate of the     *)
(* largest width among all url-width pairs of all source elements of the   *)
(* picture; candidates that are not a url and an integer width are         *)
(* skipped, and nothing is selected only when there is no such pair.       *)
(***************************************************************************)
C9_LargestWidth ==
    spc = "returned" =>
        LET cs == FlatCandidates
            P == ParsedWidths(cs)
        IN  IF P = {} THEN highest = ""
            ELSE \E i \in P : /\ \A j \in P : cs[j].n <= cs[i].n
                              /\ highest = cs[i].url

(***************************************************************************)
(* C9: the selected source is the URL of the first candidate, in document  *)
(* order, of the largest width among the url-width pairs whose width is    *)
(* greater than zero; other candidates are skipped, and nothing is         *)
(* selected when no pair has a width greater than zero.  For "a.jpg 400w", *)
(* "b.jpg 1200w", "c.jpg 800w" in any order, that is "b.jpg".              *)
(***************************************************************************)
C9_LargestPositiveWidth ==
    spc = "returned" =>
        LET cs == FlatCandidates
            P == {i \in ParsedWidths(cs) : cs[i].n > 0}
        IN  IF P = {} THEN highest = ""
            ELSE \E i \in P : /\ \A j \in P : cs[j].n <= cs[i].n
                              /\ \A j \in P : cs[j].n = cs[i].n => i <= j
                              /\ highest = cs[i].url

C9_Witness ==
    /\ spc = "returned"
    /\ Len(candidates) = 2
    /\ Len(FlatCandidates) = 3
    /\ {FlatCandidates[i] : i \in 1..3}
          = {Candidate("a.jpg", "w", 400), Candidate("b.jpg", "w", 1200),
             Candidate("c.jpg", "w", 800)}
    /\ FlatCandidates[3] = Candidate("b.jpg", "w", 1200)
    /\ highest = "b.jpg"

\* The invocation has returned from CleanArticle without error.
Succeeded == pc = "returned" /\ op = "CleanArticle" /\ ret.err = "nil"

\* The stage has run in the invocation.
HasRun(stage) == \E i \in DOMAIN trace : trace[i] = stage

\* The number of characters of a text: its bytes but for the continuation bytes
\* of the characters outside ASCII ("~" in the texts of the model).
CharacterCount(s) == Cardinality({i \in 1..Len(s) : Char(s, i) # "~"})

(***************************************************************************)
(* C11: the excerpt of every article a successful full extraction returns  *)
(* has 200 characters at most.                                             *)
(***************************************************************************)
C11_ExcerptAtMost200 ==
    Succeeded => CharacterCount(ret.value.Excerpt) <= 200

(***************************************************************************)
(* C12 as claimed: in every assembled article the excerpt is a prefix of   *)
(* the content, or the content itself when that is not longer than the     *)
(* limit.                                                                  *)
(***************************************************************************)
C12_ExcerptIsPrefix ==
    Succeeded =>
        LET c == ret.value.Content
            e == ret.value.Excerpt
        IN  IF Len(c) <= 200 THEN e = c
            ELSE Len(e) <= Len(c) /\ SubSeq(c, 1, Len(e)) = e

(***************************************************************************)
(* C12: in every assembled article the excerpt is the content itself when  *)
(* the content has 200 bytes at most; otherwise it is a prefix of the      *)
(* content followed by "...", and the prefix either stops right before a   *)
(* space that lies in the last 50 bytes of the first 200, or is the first  *)
(* 200 bytes whole (cut inside a word when no space lies there).           *)
(***************************************************************************)
C12_ExcerptIsPrefixPlusEllipsis ==
    Succeeded =>
        LET c == ret.value.Content
            e == ret.value.Excerpt
        IN  IF Len(c) <= 200 THEN e = c
            ELSE \E k \in 151..200 :
                    /\ e = SubSeq(c, 1, k) \o "..."
                    /\ k < 200 => Char(c, k + 1) = " "

C12_Witness ==
    /\ Succeeded
    /\ Len(ret.value.Content) = 299
    /\ Len(ret.value.Excerpt) = 202

(***************************************************************************)
(* C13: in every article full extraction returns, length is the number of  *)
(* characters of content, also for content with characters outside ASCII.  *)
(***************************************************************************)
C13_LengthIsCharacterCount ==
    Succeeded => ret.value.Length = CharacterCount(ret.value.Content)

(***************************************************************************)
(* C14: the Markdown adapter reports no error: when the converter fails on *)
(* HTML h the adapter's result is h, when it succeeds the result is the    *)
(* converter's output, and an invocation that has reached the Markdown     *)
(* step returns its article, with that result, without error.              *)
(***************************************************************************)
C14_MarkdownNeverFails ==
    HasRun("markdown") =>
        /\ converted.err => markdown = article.Content
        /\ ~converted.err => markdown = converted.markdown
        /\ ret.err \in {"none", "nil"}
        /\ pc = "returned" => ret.err = "nil" /\ ret.value.Markdown = markdown

C14_Witness ==
    /\ Succeeded
    /\ converted.err
    /\ ret.value.Markdown = "<p>Hello <b>world</b></p>"

(***************************************************************************)
(* C15 as claimed: the result of the Markdown adapter is not empty when    *)
(* its input HTML is not empty, whether the converter succeeds or fails.   *)
(***************************************************************************)
C15_MarkdownNeverEmpty ==
    (HasRun("markdown") /\ article.Content # "") => markdown # ""

(***************************************************************************)
(* C15: when the converter fails, the result of the Markdown adapter is    *)
(* its input, so it is not empty when the input HTML is not empty; when    *)
(* the converter succeeds the result is whatever the converter produced,   *)
(* the empty string included.                                              *)
(***************************************************************************)
C15_MarkdownEmptyOnlyFromConverter ==
    (HasRun("markdown") /\ article.Content # "") =>
        /\ converted.err => markdown # ""
        /\ markdown = "" <=> (~converted.err /\ converted.markdown = "")

C15_Witness ==
    /\ Succeeded
    /\ article.Content # ""
    /\ ~converted.err
    /\ ret.value.Markdown = ""

\* CleanArticle has returned an error.
Failed == pc = "returned" /\ op = "CleanArticle" /\ ret.err # "nil"

(***************************************************************************)
(* C16 as claimed: a fetch, parse or readability failure makes full        *)
(* extraction return a failure whose article has every field empty, the    *)
(* metadata included, and an extraction in which readability found no      *)
(* article content (no text, no HTML) is a failure, never a success.       *)
(***************************************************************************)
C16_NoEmptySuccess ==
    /\ Failed => ret.value = CleanedArticle
    /\ (pc = "returned" /\ op = "CleanArticle" /\ HasRun("readability")
            /\ article.TextContent = "" /\ article.Content = "")
          => ret.err # "nil"

(***************************************************************************)
(* C16: full extraction fails exactly when the fetch, the parse or the     *)
(* readability call returns an error, and then at once: the article        *)
(* returned has every field empty and no metadata, although the metadata   *)
(* had been extracted before readability ran.  When readability returns    *)
(* without error, extraction succeeds, also when the article it found has  *)
(* no content: the article returned then has empty content and length 0.   *)
(***************************************************************************)
C16_FatalFailures ==
    /\ Failed =>
          /\ ret.err \in {"fetch", "parse", "readability"}
          /\ trace[Len(trace)] = ret.err
          /\ ret.value = CleanedArticle
          /\ ret.value.OpenGraph = Nil
          /\ GetCleanedArticle(ret) = CleanedArticle
    /\ Succeeded =>
          /\ HasRun("readability")
          /\ article.TextContent = "" => ret.value.Content = "" /\ ret.value.Length = 0

C16_Witness ==
    /\ Failed
    /\ ret.err = "readability"
    /\ openGraphData # Nil
    /\ openGraphData[1].Title = "OG"
    /\ ret.value = CleanedArticle

(***************************************************************************)
(* C17: the debug write does not touch the outcome: the step changes       *)
(* neither the assembled article nor the return value, whatever happens to *)
(* the serialization and the file; the article returned is the one         *)
(* assembled before the write; the write is attempted only in full         *)
(* extraction, after assembly, never in an invocation that fails; and the  *)
(* file changes in that step only.                                         *)
(***************************************************************************)
C17_DebugStep ==
    /\ pc = "debug" => cleanedArticle' = cleanedArticle /\ ret' = ret /\ pc' = "return"
    /\ debugFile' # debugFile => pc = "debug"

C17_DebugWriteHarmless ==
    /\ [][C17_DebugStep]_vars
    /\ [](HasRun("debug") =>
            /\ op = "CleanArticle"
            /\ HasRun("assemble")
            /\ ret.err \in {"none", "nil"}
            /\ pc = "returned" => ret = Return(cleanedArticle, "nil"))

C17_Witness ==
    /\ Succeeded
    /\ HasRun("debug")
    /\ calls = 1
    /\ debugFile = Nil
    /\ ret.value.Content = "Hello world"

\* The document as it was parsed.
Pristine == [nodes |-> page.body, live |-> DOMAIN page.body]

(***************************************************************************)
(* C18: in every full extraction the stages run in the order fetch, parse, *)
(* metadata extraction, pruning, image rewriting, readability, text        *)
(* normalization, Markdown rendering, excerpt generation, assembly, debug  *)
(* write (then the return), each once at most; the document is not changed *)
(* before the metadata has been extracted; and after a failed fetch, parse *)
(* or readability stage no later stage runs.                               *)
(***************************************************************************)
C18_StageOrder ==
    LET full == <<"fetch", "parse", "metadata", "prune", "images", "readability",
                  "normalize", "markdown", "excerpt", "assemble", "debug", "return">>
        only == <<"fetch", "parse", "metadata", "return">>
        order == IF op = "CleanArticle" THEN full ELSE only
    IN  pc \notin {"off", "idle"} =>
            /\ Len(trace) <= Len(order)
            /\ \A i \in DOMAIN trace : trace[i] = order[i]
            /\ ret.err \notin {"none", "nil"} =>
                  /\ pc = "returned"
                  /\ ret.err \in {"fetch", "parse", "readability"}
                  /\ trace[Len(trace)] = ret.err
            /\ (dom # NoDocument /\ dom # Pristine) => HasRun("metadata")

C18_Witness ==
    /\ Succeeded
    /\ Len(trace) = 12
    /\ dom.live # DOMAIN dom.nodes
    /\ dom.nodes # page.body

(***************************************************************************)
(* C19: for the same fetched document, request URL and base URL, the       *)
(* metadata embedded in the article of a successful full extraction and    *)
(* the metadata returned by metadata-only extraction are the same record,  *)
(* the one extraction yields on the document as parsed; extraction does    *)
(* not change the document, and no later stage changes the record.         *)
(***************************************************************************)
C19_MetadataStep ==
    /\ pc = "metadata" => dom' = dom
    /\ (openGraphData # Nil /\ pc # "returned") => openGraphData' = openGraphData

C19_SameMetadata ==
    /\ [][C19_MetadataStep]_vars
    /\ []((pc = "returned" /\ ret.err = "nil") =>
            LET expected == Ref(extractOpenGraphData(Pristine, reqURL, page.url))
            IN  IF op = "CleanArticle" THEN ret.value.OpenGraph = expected
                ELSE ret.value = expected)

C19_Witness ==
    /\ Succeeded
    /\ ret.value.OpenGraph[1].Description = "Desc"
    /\ 2 \notin dom.live

(***************************************************************************)
(* C20: every invocation, full or metadata-only, issues one fetch and no   *)
(* more: the number of fetches is the number of invocations that have got  *)
(* past their fetch step; a failed fetch, parse or readability call ends   *)
(* the invocation at once; a second invocation issues its own fetch.       *)
(***************************************************************************)
C20_OneFetch ==
    /\ fetches = (IF pc = "fetch" THEN calls - 1 ELSE calls)
    /\ Cardinality({i \in DOMAIN trace : trace[i] = "fetch"}) <= 1
    /\ ret.err \notin {"none", "nil"} => pc = "returned"

C20_Witness ==
    /\ pc = "returned"
    /\ calls = 2
    /\ fetches = 2
    /\ ret.err = "fetch"

(***************************************************************************)
(* C24 as claimed: when content is longer than maxLength, the excerpt is   *)
(* the first maxLength bytes cut at their last space whenever that space   *)
(* lies at index maxLength - 50 or later (Go index, from 0), and the whole *)
(* maxLength-byte prefix otherwise, "..." appended in both cases.          *)
(***************************************************************************)
C24_CutFromSlackInclusive ==
    epc = "returned" /\ Len(content) > maxLength =>
        \E k \in 0..maxLength :
            /\ excerpt = SubSeq(content, 1, k) \o "..."
            /\ k < maxLength =>
                   /\ Char(content, k + 1) = " "
                   /\ k >= maxLength - ExcerptSlack
                   /\ \A i \in (k + 1)..(maxLength - 1) : Char(content, i + 1) # " "
            /\ k = maxLength =>
                   \A i \in 0..(maxLength - 1) :
                       i >= maxLength - ExcerptSlack => Char(content, i + 1) # " "

(***************************************************************************)
(* C24: when content is longer than maxLength, the excerpt is the first    *)
(* maxLength bytes cut at their last space whenever that space lies at an  *)
(* index greater than maxLength - 50 and greater than 0, and the whole     *)
(* maxLength-byte prefix otherwise (a last space at index maxLength - 50   *)
(* or at index 0 does not cut); "..." is appended in both cases.           *)
(***************************************************************************)
C24_CutAfterSlack ==
    epc = "returned" /\ Len(content) > maxLength =>
        \E k \in 0..maxLength :
            /\ excerpt = SubSeq(content, 1, k) \o "..."
            /\ k < maxLength =>
                   /\ Char(content, k + 1) = " "
                   /\ k > maxLength - ExcerptSlack
                   /\ k > 0
                   /\ \A i \in (k + 1)..(maxLength - 1) : Char(content, i + 1) # " "
            /\ k = maxLength =>
                   \A i \in 1..(maxLength - 1) :
                       i > maxLength - ExcerptSlack => Char(content, i + 1) # " "

\* The last space of the first 60 bytes lies at index 10 = 60 - 50: no cut.
C24_Witness ==
    /\ epc = "returned"
    /\ maxLength = 60
    /\ content = Repeat("a", 10) \o " " \o Repeat("b", 70)
    /\ excerpt = Repeat("a", 10) \o " " \o Repeat("b", 49) \o "..."

\* The number of nodes that stand for a node after the picture pass, and the
\* number of nodes that precede those of node i.
C25_Size(n) == IF n.elem.tag = "picture" /\ n.imgs # <<>> THEN Len(n.imgs) ELSE 1

RECURSIVE C25_Offset(_, _)
C25_Offset(d, i) == IF i = 1 THEN 0 ELSE C25_Offset(d, i - 1) + C25_Size(d[i - 1])

\* No candidate of the source elements reads as a URL and an integer width.
C25_Unparsed(sources) ==
    \A k \in DOMAIN sources :
        HasAttr(sources[k], "srcset") =>
            LET srcs == Split(Attr(sources[k], "srcset"), ",")
            IN  \A m \in DOMAIN srcs :
                    LET parts == Fields(TrimSpace(srcs[m]))
                    IN  Len(parts) # 2 \/ Atoi(TrimSuffix(parts[2], "w")).err

(***************************************************************************)
(* C25: the picture pass leaves a picture without img in the document as   *)
(* it was; a picture with an img and without a candidate that parses is    *)
(* replaced by its img, whose attributes are those it had but for loading  *)
(* and decoding (its src among them, untouched).                           *)
(***************************************************************************)
C25_PictureCollapse ==
    [][ipc = "call" /\ ipc' = "images" =>
          \A i \in DOMAIN idoc :
              LET n == idoc[i]
                  at == C25_Offset(idoc, i)
              IN  /\ (n.elem.tag = "picture" /\ n.imgs = <<>>) => idoc'[at + 1] = n
                  /\ (n.elem.tag = "picture" /\ n.imgs # <<>> /\ C25_Unparsed(n.sources)) =>
                         \A j \in DOMAIN n.imgs :
                             /\ idoc'[at + j].elem.tag = "img"
                             /\ idoc'[at + j].elem.attrs =
                                    {a \in n.imgs[j].attrs : a[1] \notin {"loading", "decoding"}}
                             /\ idoc'[at + j].sources = <<>>
                             /\ idoc'[at + j].imgs = <<>>]_vars

\* After the picture pass: a picture without img, and the img of a picture
\* whose candidates ("f.jpg 2x, g.jpg") did not parse, src as it was.
C25_Witness ==
    /\ ipc = "images"
    /\ Len(idoc) = 2
    /\ idoc[1] = PictureNode(<<SourceElem(<<Candidate("f.jpg", "x", 2),
                                            Candidate("g.jpg", "none", 0)>>)>>, <<>>)
    /\ idoc[2] = ImgNode({<<"src", "small.webp">>})

\* The attributes of an element but for those named.
C26_AttrsBut(e, names) == {a \in e.attrs : a[1] \notin names}

(***************************************************************************)
(* C26: the picture pass gives the img of a picture with a selected        *)
(* candidate the src resolveURL makes of the candidate with its first      *)
(* "webp" replaced by "png", leaves the src of the img of a picture        *)
(* without selected candidate as it was, and leaves every img outside a    *)
(* picture as it was; the img pass gives every img a src that ends with    *)
(* the src it had (every "webp" kept), removes loading, decoding and       *)
(* srcset and keeps the other attributes.                                  *)
(***************************************************************************)
C26_WebpOnlyInPictures ==
    [][/\ (ipc = "call" /\ ipc' = "images") =>
              \A i \in DOMAIN idoc :
                  LET n == idoc[i]
                      at == C25_Offset(idoc, i)
                      selected == findHighestQualitySource(n.sources)
                  IN  /\ n.elem.tag = "img" => idoc'[at + 1] = n
                      /\ n.elem.tag = "picture" =>
                             \A j \in DOMAIN n.imgs :
                                 IF selected = ""
                                 THEN C26_AttrsBut(idoc'[at + j].elem, {}) =
                                          C26_AttrsBut(n.imgs[j], {"loading", "decoding"})
                                 ELSE Attr(idoc'[at + j].elem, "src") =
                                          resolveURL(ReplaceFirst(selected, "webp", "png"),
                                                     baseURL)
       /\ (ipc = "images" /\ ipc' = "returned") =>
              \A i \in DOMAIN idoc :
                  idoc[i].elem.tag = "img" =>
                      /\ HasAttr(idoc'[i].elem, "src") = HasAttr(idoc[i].elem, "src")
                      /\ HasSuffix(Attr(idoc'[i].elem, "src"), Attr(idoc[i].elem, "src"))
                      /\ C26_AttrsBut(idoc'[i].elem, {"src"}) =
                             C26_AttrsBut(idoc[i].elem, {"src", "loading", "decoding", "srcset"})]_vars

\* Both passes done, base host "img.webp.io": the img of a picture whose
\* selected candidate was "/b.webp.webp", and an img that stood alone.
C26_Witness ==
    /\ ipc = "returned"
    /\ baseURL.Host = "img.webp.io"
    /\ Len(idoc) = 2
    /\ Attr(idoc[1].elem, "src") = "https://img.webp.io/b.png.webp"
    /\ idoc[2] = ImgNode({<<"src", "https://img.webp.io/pic.webp">>})

\* The orders of the patterns tried: the fixed order and every exchange of two
\* patterns in it.
C27_Orders ==
    {[i \in DOMAIN unwantedTextPatterns |-> IF i = a THEN b ELSE IF i = b THEN a ELSE i] :
        a \in DOMAIN unwantedTextPatterns, b \in DOMAIN unwantedTextPatterns}

\* The normalizer with the patterns applied in the order o.
C27_CleanInOrder(c, o) ==
    TrimSpace(removePatterns(collapseBlanks(collapseNewlines(c, 1)),
                             [i \in DOMAIN o |-> unwantedTextPatterns[o[i]]]))

(***************************************************************************)
(* C27: cleanTextContent returns, for every text, the string it would      *)
(* return with the boilerplate patterns applied in any other order.        *)
(***************************************************************************)
C27_OrderIndependent ==
    npc = "returned" => \A o \in C27_Orders : C27_CleanInOrder(ntext, o) = ncleaned

(***************************************************************************)
(* C28: the text cleanTextContent returns holds no match of any of the     *)
(* boilerplate patterns.                                                   *)
(***************************************************************************)
C28_NoBoilerplateLeft ==
    npc = "returned" =>
        \A k \in DOMAIN unwantedTextPatterns :
            \A i \in 1..Len(ncleaned) : MatchEnd(ncleaned, i, unwantedTextPatterns[k]) = 0

(***************************************************************************)
(* C29: the text cleanTextContent returns holds no run of whitespace with  *)
(* three newlines or more, no two consecutive spaces or tabs, and neither  *)
(* begins nor ends with whitespace.                                        *)
(***************************************************************************)
C29_WhitespaceCollapsed ==
    npc = "returned" =>
        /\ \A i \in 1..Len(ncleaned) :
               Char(ncleaned, i) = "\n" => Cardinality(RunNewlines(ncleaned, i)) < 3
        /\ \A i \in 1..(Len(ncleaned) - 1) :
               ~(Char(ncleaned, i) \in {" ", "\t"} /\ Char(ncleaned, i + 1) \in {" ", "\t"})
        /\ ncleaned # "" =>
               ~IsSpace(Char(ncleaned, 1)) /\ ~IsSpace(Char(ncleaned, Len(ncleaned)))

(***************************************************************************)
(* C30: of several meta elements for one single-valued key, the last one   *)
(* in document order whose content is not empty gives the field its value  *)
(* (og:title, og:description, twitter:image; the image resolved); elements *)
(* with an absent or empty content count for nothing, so a key with such   *)
(* elements only gets the fallback of the title element or of              *)
(* meta[name=description], and twitter:image stays empty.                  *)
(***************************************************************************)
C30_LastNonEmptyWins ==
    mpc = "returned" =>
        /\ og.Title = (IF ContentsOf(doc, "property", "og:title") # <<>>
                       THEN LastOf(doc, "property", "og:title") ELSE TitleOf(doc))
        /\ og.Description = (IF ContentsOf(doc, "property", "og:description") # <<>>
                             THEN LastOf(doc, "property", "og:description")
                             ELSE StandardOf(doc, "description"))
        /\ og.TwitterImage = (IF ContentsOf(doc, "name", "twitter:image") # <<>>
                              THEN resolveURL(LastOf(doc, "name", "twitter:image"), baseURL)
                              ELSE "")

\* Two og:title elements with a content and then one with an empty content.
C30_Witness ==
    /\ mpc = "returned"
    /\ doc = <<MetaProperty("og:title", "OG"), MetaProperty("og:title", "OG2"),
               MetaProperty("og:title", "")>>
    /\ og.Title = "OG2"

\* The handler has answered; the url of the request is absent or empty; the
\* pipeline has reported a failure or returned a degenerate result.
C22_Responded == hpc = "responded"

C22_URLMissing == request.url = Nil \/ request.url = Ref("")

C22_PipelineFailed ==
    /\ calls = 1
    /\ \/ ret.err # "nil"
       \/ IF IsExtract(request.route)
          THEN ret.value.Title = "" /\ ret.value.Content = ""
          ELSE ret.value[1].Title = ""

(***************************************************************************)
(* C22 as claimed: success is true exactly when the status is 200; a       *)
(* request whose URL is missing or malformed is answered with 400 and      *)
(* success false without any fetch; the status is 500, with success false, *)
(* exactly when the pipeline failed or returned a degenerate result.       *)
(***************************************************************************)
C22_MalformedRejected ==
    C22_Responded =>
        /\ response.body.Success <=> response.status = 200
        /\ (C22_URLMissing \/ ~IsAbsoluteURL(Query(request.url))) =>
               /\ response.status = 400
               /\ ~response.body.Success
               /\ fetches = 0
        /\ response.status = 500 <=> C22_PipelineFailed

(***************************************************************************)
(* C22: success is true exactly when the status is 200; the status is 400  *)
(* exactly when the request does not bind (a POST body that is not JSON of *)
(* the request type, a URL that is missing or empty), and then the         *)
(* pipeline is not invoked and nothing is fetched; a URL that is not empty *)
(* is not checked further: a malformed one goes to the pipeline and the    *)
(* answer is 500; the status is 500 exactly when the pipeline was invoked  *)
(* and failed or returned a degenerate result (no title and no content for *)
(* /extract, no title for /opengraph).                                     *)
(***************************************************************************)
C22_Envelope ==
    C22_Responded =>
        /\ response.body.Success <=> response.status = 200
        /\ response.status \in {200, 400, 500}
        /\ response.status = 400 <=>
               \/ C22_URLMissing
               \/ IsPost(request.route) /\ ~request.json
               \/ IsPost(request.route) /\ request.markdown = Ref("\"true\"")
        /\ response.status = 400 => calls = 0 /\ fetches = 0 /\ trace = <<>>
        /\ (~C22_URLMissing /\ response.status # 400
                /\ ~IsAbsoluteURL(Query(request.url))) =>
               response.status = 500 /\ fetches <= 1
        /\ response.status = 500 <=> C22_PipelineFailed

\* A malformed URL went to the pipeline, the fetch failed, the answer is 500.
C22_Witness ==
    /\ C22_Responded
    /\ request.url = Ref("not a url")
    /\ fetches = 1
    /\ response.status = 500
    /\ ~response.body.Success

(***************************************************************************)
(* C23: a successful /extract response carries the fields of the article   *)
(* the pipeline returned, and its markdown only if the request asked for   *)
(* it (include_markdown true in the POST body, markdown=true in the GET    *)
(* query): without that the markdown of the response is empty, whatever    *)
(* the pipeline computed, and the other fields are the same either way.    *)
(***************************************************************************)
C23_MarkdownOnRequest ==
    (hpc = "responded" /\ IsExtract(request.route) /\ response.status = 200) =>
        response.body =
            [URL |-> ret.value.URL, Title |-> ret.value.Title,
             Content |-> ret.value.Content,
             Markdown |-> IF request.markdown = Ref("true") THEN ret.value.Markdown ELSE "",
             Author |-> ret.value.Author, Excerpt |-> ret.value.Excerpt,
             Length |-> ret.value.Length, PublishedAt |-> ret.value.PublishedAt,
             OpenGraph |-> ret.value.OpenGraph, Success |-> TRUE, Message |-> ""]

\* GET /extract?markdown=TRUE: the pipeline computed a markdown, the response
\* has none.
C23_Witness ==
    /\ hpc = "responded"
    /\ request.route = "GET /extract"
    /\ request.markdown = Ref("TRUE")
    /\ response.status = 200
    /\ ret.value.Markdown = "Hello **world**"
    /\ response.body.Markdown = ""

(***************************************************************************)
(* C21: concurrent extraction invocations do not influence each other's    *)
(* results: under every interleaving each invocation returns the value or  *)
(* the failure it would return when run alone on the same fetched          *)
(* document; the only shared mutable object is the debug file, which is    *)
(* written but never read by the pipeline and which, after all concurrent  *)
(* full extractions finish, holds the serialization written by the last    *)
(* writer.                                                                 *)
(***************************************************************************)
\* What the call returns when it runs alone and the environment answers it
\* what the locals l record.
C21_Alone(l) ==
    IF l.ret.err # "nil" THEN ZeroValue(l.op)
    ELSE LET d == [nodes |-> l.page.body, live |-> DOMAIN l.page.body]
             meta == Ref(extractOpenGraphData(d, l.reqURL, l.page.url))
             text == cleanTextContent(l.article.TextContent)
         IN  IF l.op = "CleanArticle"
             THEN assemble(l.reqURL, l.article, text,
                           convertToMarkdown(l.article.Content, l.converted),
                           generateExcerpt(text, ArticleExcerptLimit), meta)
             ELSE meta

C21_ResultsAsAlone ==
    \A g \in DOMAIN goroutines :
        goroutines[g].pc = "returned" => goroutines[g].ret.value = C21_Alone(goroutines[g])

C21_LastWriterWins ==
    (\A g \in DOMAIN goroutines : goroutines[g].pc = "returned") =>
        \A g \in DOMAIN goroutines :
            (goroutines[g].wrote > 0 /\ goroutines[g].wrote = lastWrite(goroutines))
                => debugFile = Ref(goroutines[g].html)

C21_Independent == C21_ResultsAsAlone /\ C21_LastWriterWins

\* Two full extractions returned, each having written the file.
C21_Witness ==
    /\ DOMAIN goroutines # {}
    /\ \A g \in DOMAIN goroutines :
          /\ goroutines[g].pc = "returned"
          /\ goroutines[g].op = "CleanArticle"
          /\ goroutines[g].ret.err = "nil"
          /\ goroutines[g].wrote > 0
    /\ \E g, h \in DOMAIN goroutines : goroutines[g].html # goroutines[h].html

====
